---- MODULE Spec2Model ----
(***************************************************************************)
(* Task lifecycle, cancellation, archival and status reconciliation of     *)
(* AudioMuse-AI (src/app.py): the durable task store (table task_status),  *)
(* the queue engine (RQ jobs), and the operations that read and write      *)
(* them.                                                                   *)
(***************************************************************************)
EXTENDS Integers, Sequences, FiniteSets, TLC

VARIABLES
    store,      \* table task_status: task_id -> row (only the rows that exist)
    jobs,       \* queue engine: job id -> [status, meta] (only the jobs that exist)
    sent,       \* commands issued to the queue engine, per job id, in order
    now,        \* the wall clock time.time() / NOW()
    calls,      \* the cancel requests in flight: caller -> call state
    sweep,      \* the archival sweep in flight (its transaction)
    ret,        \* the last completed operation: its arguments and its result
    ops,        \* number of operations started by the environment so far
    notifier    \* the reload listener thread and its subscription to 'index-updates'

vars == <<store, jobs, sent, now, calls, sweep, ret, ops, notifier>>

---------------------------------------------------------------------------
(* Program constants                                                       *)

MAX_LOG_ENTRIES_STORED == 10

TASK_STATUS_PENDING == "PENDING"
TASK_STATUS_STARTED == "STARTED"
TASK_STATUS_PROGRESS == "PROGRESS"
TASK_STATUS_SUCCESS == "SUCCESS"
TASK_STATUS_FAILURE == "FAILURE"
TASK_STATUS_REVOKED == "REVOKED"

Statuses ==
    {TASK_STATUS_PENDING, TASK_STATUS_STARTED, TASK_STATUS_PROGRESS,
     TASK_STATUS_SUCCESS, TASK_STATUS_FAILURE, TASK_STATUS_REVOKED}

\* the literal list ('SUCCESS', 'FAILURE', 'REVOKED') of the upsert and of the cancel paths
TerminalStatuses == {TASK_STATUS_SUCCESS, TASK_STATUS_FAILURE, TASK_STATUS_REVOKED}

\* SQL NULL / Python None of a text column or argument
NULL == "NULL"

\* SQL NULL / Python None of start_time and end_time (the clock is always > 0)
NoTime == -1

---------------------------------------------------------------------------
(* Bounds of the model                                                     *)

MaxTime == 2
MaxOps == 3
MaxLogLen == 12
MaxMsgs == 3

---------------------------------------------------------------------------
(* The task forest the workers build (tasks.py passes these to             *)
(* save_task_status): R -> {C1, C2}, C1 -> {G}, and a second root R2.      *)

TaskIds == {"R", "C1", "C2", "G", "R2"}

ParentOf(t) ==
    CASE t = "C1" -> "R"
      [] t = "C2" -> "R"
      [] t = "G" -> "C1"
      [] OTHER -> NULL

TaskTypeOf(t) ==
    CASE t = "R" -> "main_analysis"
      [] t = "C1" -> "album_analysis"
      [] t = "C2" -> "album_analysis"
      [] t = "G" -> "track_analysis"
      [] OTHER -> "main_clustering"

TaskTypes == {TaskTypeOf(t) : t \in TaskIds}

SubTypeOf(t) ==
    CASE t = "C1" -> "album-1"
      [] t = "C2" -> "album-2"
      [] t = "G" -> "track-1"
      [] OTHER -> NULL

---------------------------------------------------------------------------
(* Python values: dicts are functions from keys to values, lists are       *)
(* sequences.                                                              *)

\* Python None passed as details
PyNone == [None |-> TRUE]

\* a JSON string found where a list is expected (isinstance(x, list) is False)
NotAList == <<"<str>">>

IsDict(v) == v # PyNone

IsList(v) == v # NotAList

EmptyDict == [k \in {} |-> TRUE]

\* d.pop(k, None)
Pop(d, k) == [x \in DOMAIN d \ {k} |-> d[x]]

\* d[k] = v
Put(d, k, v) == [x \in DOMAIN d \cup {k} |-> IF x = k THEN v ELSE d[x]]

\* a merge in which the keys of a win
Merge_FirstWins(a, b) ==
    [x \in DOMAIN a \cup DOMAIN b |-> IF x \in DOMAIN a THEN a[x] ELSE b[x]]

\* {**a, **b}: the keys of b win
Merge(a, b) == [x \in DOMAIN a \cup DOMAIN b |-> IF x \in DOMAIN b THEN b[x] ELSE a[x]]

\* lst[:n], the slice from the wrong end
LastN_FirstN(lst, n) ==
    IF Len(lst) <= n THEN lst ELSE SubSeq(lst, 1, n)

\* lst[-n:]
LastN(lst, n) ==
    IF Len(lst) <= n THEN lst ELSE SubSeq(lst, Len(lst) - n + 1, Len(lst))

\* the details column: SQL NULL, or the text json.dumps wrote
SqlNullDetails == [kind |-> "null"]

json_dumps(obj) == [kind |-> "json", obj |-> obj]

\* json.loads succeeds on the text json.dumps wrote, and raises on any other text
json_loads_ok(text) == text.kind = "json"

json_loads(text) == text.obj

\* f"Log in DB truncated to last {MAX_LOG_ENTRIES_STORED} entries. Original length: {n}."
LogStorageInfo(n) ==
    "Log in DB truncated to last " \o ToString(MAX_LOG_ENTRIES_STORED)
    \o " entries. Original length: " \o ToString(n) \o "."

---------------------------------------------------------------------------
(* save_task_status                                                        *)

\* the log truncation of a write with a status other than SUCCESS
TruncateLog(details) ==
    IF Len(details["log"]) > MAX_LOG_ENTRIES_STORED
    THEN Put(Put(details, "log", LastN(details["log"], MAX_LOG_ENTRIES_STORED)),
             "log_storage_info", LogStorageInfo(Len(details["log"])))
    ELSE Pop(details, "log_storage_info")

\* a SUCCESS write that caps the log as the other writes do
SuccessLog_Capped(details) ==
    IF "log" \in DOMAIN details /\ IsList(details["log"]) /\ details["log"] # <<>>
    THEN TruncateLog(details)
    ELSE Put(Pop(details, "log_storage_info"), "log", <<"Task completed successfully.">>)

\* the log of a write with status SUCCESS
SuccessLog(details) ==
    LET d == Pop(details, "log_storage_info") IN
    IF "log" \notin DOMAIN d \/ ~IsList(d["log"]) \/ d["log"] = <<>>
    THEN Put(d, "log", <<"Task completed successfully.">>)
    ELSE d

\* what save_task_status makes of its details argument before it is serialised
PrepareDetails(status, details) ==
    IF details # PyNone /\ IsDict(details)
    THEN IF status # TASK_STATUS_SUCCESS /\ "log" \in DOMAIN details /\ IsList(details["log"])
         THEN TruncateLog(details)
         ELSE IF status = TASK_STATUS_SUCCESS
              THEN SuccessLog(details)
              ELSE details
    ELSE details

DetailsJson(status, details) ==
    LET d == PrepareDetails(status, details) IN
    IF d # PyNone THEN json_dumps(d) ELSE SqlNullDetails

\* INSERT ... VALUES: end_time of a new row
InsertEndTime(status, t) ==
    IF status \in TerminalStatuses THEN t ELSE NoTime

\* start_time = EXCLUDED.start_time, an upsert without the COALESCE
UpdateStartTime_Overwrite(old, t) == t

\* an upsert that takes end_time from every terminal write, set or not
UpdateEndTime_Overwrite(old, status, t) ==
    IF status \in TerminalStatuses THEN t ELSE old

\* ON CONFLICT: start_time = COALESCE(task_status.start_time, now)
UpdateStartTime(old, t) ==
    IF old # NoTime THEN old ELSE t

\* ON CONFLICT: end_time = CASE WHEN EXCLUDED.status IN (...) AND task_status.end_time IS NULL
UpdateEndTime(old, status, t) ==
    IF status \in TerminalStatuses /\ old = NoTime THEN t ELSE old

\* an upsert that leaves the status of an existing row alone
UpdateStatus_KeepOld(old, status) == old

\* ON CONFLICT: status = EXCLUDED.status
UpdateStatus(old, status) == status

\* the row the INSERT ... ON CONFLICT (task_id) DO UPDATE leaves for task_id
UpsertRow(st, t, task_id, task_type, status, parent_task_id, sub_type_identifier, progress, details_json) ==
    IF task_id \notin DOMAIN st
    THEN [parent_task_id |-> parent_task_id,
          task_type |-> task_type,
          sub_type_identifier |-> sub_type_identifier,
          status |-> status,
          progress |-> progress,
          details |-> details_json,
          timestamp |-> t,
          start_time |-> t,
          end_time |-> InsertEndTime(status, t)]
    ELSE [parent_task_id |-> parent_task_id,
          task_type |-> st[task_id].task_type,
          sub_type_identifier |-> sub_type_identifier,
          status |-> UpdateStatus(st[task_id].status, status),
          progress |-> progress,
          details |-> details_json,
          timestamp |-> t,
          start_time |-> UpdateStartTime(st[task_id].start_time, t),
          end_time |-> UpdateEndTime(st[task_id].end_time, status, t)]

\* the table after save_task_status(...); a psycopg2.Error (dbError) is logged,
\* rolled back and not raised: the table is as before and the caller goes on
SavedStore(st, t, task_id, task_type, status, parent_task_id, sub_type_identifier, progress, details, dbError) ==
    IF dbError
    THEN st
    ELSE [x \in DOMAIN st \cup {task_id} |->
            IF x = task_id
            THEN UpsertRow(st, t, task_id, task_type, status, parent_task_id,
                           sub_type_identifier, progress, DetailsJson(status, details))
            ELSE st[x]]

---------------------------------------------------------------------------
(* The queue engine (RQ), as the adapter sees it                           *)

JobStatuses == {"queued", "started", "finished", "failed", "canceled"}

\* job.is_finished, job.is_failed, job.is_canceled
EngineTerminal == {"finished", "failed", "canceled"}

\* no job was ever enqueued with a reason to cancel; the engine holds no jobs
NoJobs == [j \in {} |-> TRUE]

\* an attempt that stops every live job, executing or not
InterruptJob_AlwaysStop(js, snt, job_id, rqError) ==
    IF job_id \in DOMAIN js /\ ~rqError /\ js[job_id].status \notin EngineTerminal
    THEN [jobs |-> js, sent |-> [snt EXCEPT ![job_id] = Append(@, "stop")],
          action_taken_in_rq |-> TRUE]
    ELSE [jobs |-> js, sent |-> snt, action_taken_in_rq |-> FALSE]

\* an attempt that counts every job it could fetch
InterruptJob_CountsFetched(js, snt, job_id, rqError) ==
    [jobs |-> js, sent |-> snt, action_taken_in_rq |-> job_id \in DOMAIN js]

\* the engine after the stop/cancel attempt of cancel_job_and_children_recursive for
\* job_id: [jobs, sent, action_taken_in_rq]. A NoSuchJobError and any other
\* exception of the engine (rqError) are caught: no command was issued.
InterruptJob(js, snt, job_id, rqError) ==
    IF job_id \notin DOMAIN js \/ rqError
    THEN [jobs |-> js, sent |-> snt, action_taken_in_rq |-> FALSE]
    ELSE IF js[job_id].status \notin EngineTerminal
         THEN IF js[job_id].status = "started"
              THEN [jobs |-> js,
                    sent |-> [snt EXCEPT ![job_id] = Append(@, "stop")],
                    action_taken_in_rq |-> TRUE]
              ELSE [jobs |-> [js EXCEPT ![job_id].status = "canceled"],
                    sent |-> [snt EXCEPT ![job_id] = Append(@, "cancel")],
                    action_taken_in_rq |-> TRUE]
         ELSE [jobs |-> js, sent |-> snt, action_taken_in_rq |-> FALSE]

---------------------------------------------------------------------------
(* cancel_job_and_children_recursive: one frame per call of the recursion  *)

\* reason=f"Cancellation requested for task {task_id} via API."
ReasonApi(task_id) == "Cancellation requested for task " \o task_id \o " via API."

\* reason=f"Bulk cancellation for task type '{task_type_prefix}' via API."
ReasonBulk(prefix) == "Bulk cancellation for task type '" \o prefix \o "' via API."

ReasonParent == "Cancelled due to parent task revocation."

\* the default of the parameter reason
ReasonDefault == "Task cancellation processed by API."

Frame(job_id, reason) ==
    [job_id |-> job_id, reason |-> reason, pc |-> "enter",
     cancelled_count |-> 0, children |-> <<>>]

\* at_call is what the table and the engine held when the request arrived (the
\* columns a cancellation is not meant to change, the statuses, and the job
\* statuses, and the commands sent so far): it is read by no step, and written
\* down for the properties that compare a call's result with the state it
\* started from
AtCall(st, js, snt) ==
    [store |-> [t \in DOMAIN st |->
                  [status |-> st[t].status,
                   parent_task_id |-> st[t].parent_task_id,
                   sub_type_identifier |-> st[t].sub_type_identifier,
                   task_type |-> st[t].task_type,
                   start_time |-> st[t].start_time]],
     jobs |-> [j \in DOMAIN js |-> js[j].status],
     sent |-> snt]

NotCalled ==
    [store |-> [t \in {} |-> TRUE], jobs |-> [t \in {} |-> TRUE], sent |-> [t \in {} |-> TRUE]]

\* visited is the set of the tasks that the running top-level call of
\* cancel_job_and_children_recursive has entered so far; like at_call it is read
\* by no step
IdleCall ==
    [op |-> "none", arg |-> NULL, stack |-> <<>>, todo |-> <<>>, total |-> 0, ids |-> <<>>,
     at_call |-> NotCalled, visited |-> {}]

\* the rows a transaction of the archival sweep has updated and not yet committed:
\* a writer of such a row waits for the sweep's commit or rollback
Locked == DOMAIN sweep.pending

\* a query that returns every other task of the table
ChildIds_AllOthers(st, parent) == DOMAIN st \ {parent}

\* get_child_tasks_from_db: the task ids whose parent_task_id is parent
ChildIds(st, parent) == {t \in DOMAIN st : st[t].parent_task_id = parent}

\* the orders in which a SELECT without ORDER BY may return a set of rows
RECURSIVE Orders(_)
Orders(S) ==
    IF S = {} THEN {<<>>}
    ELSE UNION {{<<x>> \o o : o \in Orders(S \ {x})} : x \in S}

\* a child loop that recurses into children that have begun to run only
ChildNeedsCancel_BegunOnly(st, child) ==
    child \in DOMAIN st /\ st[child].status \in {TASK_STATUS_STARTED, TASK_STATUS_PROGRESS}

\* a child loop that recurses into every child that has a row
ChildNeedsCancel_Always(st, child) == child \in DOMAIN st

\* a child loop that recurses into PENDING children only
ChildNeedsCancel_PendingOnly(st, child) ==
    child \in DOMAIN st /\ st[child].status = TASK_STATUS_PENDING

\* the child loop's test: the child is recursed into unless its row is terminal
ChildNeedsCancel(st, child) ==
    child \in DOMAIN st /\ st[child].status \notin TerminalStatuses

NoResponse == [op |-> "none"]

\* the response of cancel_task_endpoint
CancelResponse(task_id, code, message, n) ==
    [op |-> "cancel", arg |-> task_id, code |-> code, message |-> message,
     cancelled_jobs_count |-> n]

\* the response of cancel_all_tasks_by_type_endpoint
CancelAllResponse(prefix, code, total, ids) ==
    [op |-> "cancel_all", arg |-> prefix, code |-> code,
     cancelled_jobs_count |-> total, cancelled_main_tasks |-> ids]

\* an exception that leaves the request handler: the framework answers 500
ErrorResponse(call) == [op |-> call.op, arg |-> call.arg, code |-> 500]

SetTop(call, f) == [call EXCEPT !.stack = <<f>> \o Tail(@)]

\* what cancel_job_and_children_recursive(job_id) returns to a caller other than
\* the two endpoints
RecursiveResponse(job_id, n) == [op |-> "recursive", arg |-> job_id, cancelled_count |-> n]

\* the endpoint after the recursion it started for job_id returned n:
\* [call, done, response]
EndpointAfter(call, job_id, n) ==
    IF call.op = "recursive"
    THEN [call |-> IdleCall, done |-> TRUE, response |-> RecursiveResponse(call.arg, n)]
    ELSE IF call.op = "cancel"
    THEN [call |-> IdleCall, done |-> TRUE,
          response |-> IF n > 0
                       THEN CancelResponse(call.arg, 200, "initiated", n)
                       ELSE CancelResponse(call.arg, 400, "could_not_cancel", 0)]
    ELSE LET total == IF n > 0 THEN call.total + n ELSE call.total
             ids == IF n > 0 THEN Append(call.ids, job_id) ELSE call.ids
         IN  IF call.todo = <<>>
             THEN [call |-> IdleCall, done |-> TRUE,
                   response |-> CancelAllResponse(call.arg, IF total > 0 THEN 200 ELSE 404,
                                                  total, ids)]
             ELSE [call |-> [call EXCEPT
                                !.stack = <<Frame(Head(call.todo), ReasonBulk(call.arg))>>,
                                !.todo = Tail(@), !.total = total, !.ids = ids,
                                !.visited = {Head(call.todo)}],
                   done |-> FALSE, response |-> NoResponse]

\* the call after its innermost frame returned n: the count is added to the
\* calling frame's, or handed to the endpoint
Returned(call, n) ==
    IF Len(call.stack) > 1
    THEN [call |-> [call EXCEPT !.stack =
                        <<[call.stack[2] EXCEPT !.cancelled_count = @ + n]>>
                        \o SubSeq(call.stack, 3, Len(call.stack))],
          done |-> FALSE, response |-> NoResponse]
    ELSE EndpointAfter(call, call.stack[1].job_id, n)

\* a check that forgets REVOKED
NotCancellable_NoRevoked(status) == status \in {TASK_STATUS_SUCCESS, TASK_STATUS_FAILURE}

\* the caller-facing check of both cancel endpoints: a task in one of these
\* statuses is not handed to the recursion
NotCancellable(status) == status \in TerminalStatuses

\* POST /api/cancel/<task_id>: the lookup and the terminal-status check, then the
\* first call of the recursion is entered
CancelTaskEndpoint(c, task_id) ==
    /\ calls[c] = IdleCall
    /\ ops < MaxOps
    /\ ops' = ops + 1
    /\ IF task_id \notin DOMAIN store
       THEN /\ ret' = CancelResponse(task_id, 404, "not_found", 0)
            /\ calls' = calls
       ELSE IF NotCancellable(store[task_id].status)
            THEN /\ ret' = CancelResponse(task_id, 400, "already_terminal", 0)
                 /\ calls' = calls
            ELSE /\ ret' = NoResponse
                 /\ calls' = [calls EXCEPT ![c] =
                        [IdleCall EXCEPT !.op = "cancel", !.arg = task_id,
                                         !.stack = <<Frame(task_id, ReasonApi(task_id))>>,
                                         !.at_call = AtCall(store, jobs, sent),
                                         !.visited = {task_id}]]
    /\ UNCHANGED <<store, jobs, sent, now, notifier, sweep>>

\* POST /api/cancel_all/<task_type_prefix>: the SELECT of the non-terminal tasks of
\* the type, then the loop over its rows
CancelAllEndpoint(c, prefix) ==
    /\ calls[c] = IdleCall
    /\ ops < MaxOps
    /\ ops' = ops + 1
    /\ \E tasks_to_cancel \in Orders({t \in DOMAIN store :
                                        /\ store[t].task_type = prefix
                                        /\ ~NotCancellable(store[t].status)}) :
          IF tasks_to_cancel = <<>>
          THEN /\ ret' = CancelAllResponse(prefix, 404, 0, <<>>)
               /\ calls' = calls
          ELSE /\ ret' = NoResponse
               /\ calls' = [calls EXCEPT ![c] =
                      [IdleCall EXCEPT !.op = "cancel_all", !.arg = prefix,
                                       !.stack = <<Frame(Head(tasks_to_cancel), ReasonBulk(prefix))>>,
                                       !.todo = Tail(tasks_to_cancel),
                                       !.at_call = AtCall(store, jobs, sent),
                                       !.visited = {Head(tasks_to_cancel)}]]
    /\ UNCHANGED <<store, jobs, sent, now, notifier, sweep>>

\* a lookup that takes a task without a row for a main analysis
CurrentTaskType_Assumed(st, job_id, task_type_from_db) ==
    IF job_id \in DOMAIN st THEN st[job_id].task_type ELSE "main_analysis"

\* current_task_type = db_task_info.get('task_type') if db_task_info else task_type_from_db
CurrentTaskType(st, job_id, task_type_from_db) ==
    IF job_id \in DOMAIN st THEN st[job_id].task_type ELSE task_type_from_db

\* cancel_job_and_children_recursive(job_id), called with the defaults of its other
\* parameters by a caller that made no check of its own
CancelRecursive(c, job_id) ==
    /\ calls[c] = IdleCall
    /\ ops < MaxOps
    /\ ops' = ops + 1
    /\ ret' = NoResponse
    /\ calls' = [calls EXCEPT ![c] =
           [IdleCall EXCEPT !.op = "recursive", !.arg = job_id,
                            !.stack = <<Frame(job_id, ReasonDefault)>>,
                            !.at_call = AtCall(store, jobs, sent),
                            !.visited = {job_id}]]
    /\ UNCHANGED <<store, jobs, sent, now, notifier, sweep>>

\* cancel_job_and_children_recursive, from its entry to the REVOKED write; without
\* a task type (no row): the best-effort stop, and the return
CancelEnter(c, dbError, rqError) ==
    /\ calls[c].stack # <<>>
    /\ Head(calls[c].stack).pc = "enter"
    /\ LET f == Head(calls[c].stack)
           job_id == f.job_id
           current_task_type == CurrentTaskType(store, job_id, NULL)
       IN  IF current_task_type = NULL
           THEN IF job_id \in DOMAIN jobs
                THEN IF rqError
                     THEN /\ calls' = [calls EXCEPT ![c] = IdleCall]
                          /\ ret' = ErrorResponse(calls[c])
                          /\ UNCHANGED <<store, jobs, sent>>
                     ELSE /\ sent' = [sent EXCEPT ![job_id] = Append(@, "stop")]
                          /\ calls' = [calls EXCEPT ![c] = Returned(calls[c], 1).call]
                          /\ ret' = IF Returned(calls[c], 1).done
                                    THEN Returned(calls[c], 1).response ELSE NoResponse
                          /\ UNCHANGED <<store, jobs>>
                ELSE /\ calls' = [calls EXCEPT ![c] = Returned(calls[c], 0).call]
                     /\ ret' = IF Returned(calls[c], 0).done
                               THEN Returned(calls[c], 0).response ELSE NoResponse
                     /\ UNCHANGED <<store, jobs, sent>>
           ELSE /\ job_id \notin Locked
                /\ store' = SavedStore(store, now, job_id, current_task_type,
                                       TASK_STATUS_REVOKED, NULL, NULL, 100,
                                       [message |-> f.reason], dbError)
                /\ calls' = [calls EXCEPT ![c] = SetTop(@, [f EXCEPT !.pc = "rq"])]
                /\ ret' = NoResponse
                /\ UNCHANGED <<jobs, sent>>
    /\ UNCHANGED <<now, notifier, sweep, ops>>

\* the attempt to stop the job in the engine, and the count of this call
CancelInterrupt(c, rqError) ==
    /\ calls[c].stack # <<>>
    /\ Head(calls[c].stack).pc = "rq"
    /\ LET f == Head(calls[c].stack)
           r == InterruptJob(jobs, sent, f.job_id, rqError)
       IN  /\ jobs' = r.jobs
           /\ sent' = r.sent
           /\ calls' = [calls EXCEPT ![c] = SetTop(@,
                           [f EXCEPT !.pc = "children",
                                     !.cancelled_count = IF r.action_taken_in_rq THEN @ + 1 ELSE @])]
    /\ ret' = NoResponse
    /\ UNCHANGED <<store, now, notifier, sweep, ops>>

\* children_tasks = get_child_tasks_from_db(job_id)
CancelChildren(c) ==
    /\ calls[c].stack # <<>>
    /\ Head(calls[c].stack).pc = "children"
    /\ LET f == Head(calls[c].stack) IN
       \E children_tasks \in Orders(ChildIds(store, f.job_id)) :
          calls' = [calls EXCEPT ![c] = SetTop(@,
                       [f EXCEPT !.pc = "loop", !.children = children_tasks])]
    /\ ret' = NoResponse
    /\ UNCHANGED <<store, jobs, sent, now, notifier, sweep, ops>>

\* one round of the loop over the children: the child's row is read and, unless it
\* is terminal, the recursion enters the child; after the last child, the return
CancelLoop(c) ==
    /\ calls[c].stack # <<>>
    /\ Head(calls[c].stack).pc = "loop"
    /\ LET f == Head(calls[c].stack) IN
       IF f.children = <<>>
       THEN /\ calls' = [calls EXCEPT ![c] = Returned(calls[c], f.cancelled_count).call]
            /\ ret' = IF Returned(calls[c], f.cancelled_count).done
                      THEN Returned(calls[c], f.cancelled_count).response ELSE NoResponse
       ELSE /\ ret' = NoResponse
            /\ IF ChildNeedsCancel(store, Head(f.children))
               THEN calls' = [calls EXCEPT ![c].stack =
                                 <<Frame(Head(f.children), ReasonParent),
                                   [f EXCEPT !.children = Tail(@)]>> \o Tail(@),
                                           ![c].visited = @ \cup {Head(f.children)}]
               ELSE calls' = [calls EXCEPT ![c] = SetTop(@, [f EXCEPT !.children = Tail(@)])]
    /\ UNCHANGED <<store, jobs, sent, now, notifier, sweep, ops>>

---------------------------------------------------------------------------
(* clean_up_previous_main_tasks: the archival sweep, one transaction       *)

\* the tuple non_terminal_statuses of the sweep's SELECT
SweepStatuses ==
    {TASK_STATUS_PENDING, TASK_STATUS_STARTED, TASK_STATUS_PROGRESS, TASK_STATUS_SUCCESS}

NoPending == [t \in {} |-> TRUE]

IdleSweep ==
    [pc |-> "idle", tasks_to_archive |-> <<>>, archived_count |-> 0, pending |-> NoPending]

\* a SELECT without parent_task_id IS NULL
SweepSelected_WithChildren(st) ==
    {t \in DOMAIN st : st[t].status \in SweepStatuses}

\* a SELECT that takes every root, the archived ones too
SweepSelected_AnyStatus(st) ==
    {t \in DOMAIN st : st[t].parent_task_id = NULL}

\* the rows the sweep's SELECT returns
SweepSelected(st) ==
    {t \in DOMAIN st : st[t].status \in SweepStatuses /\ st[t].parent_task_id = NULL}

\* original_status_message: details.status_message when the details parse and
\* hold one, else the default
OriginalStatusMessage(original_status, original_details_json) ==
    IF /\ original_details_json # SqlNullDetails
       /\ json_loads_ok(original_details_json)
       /\ "status_message" \in DOMAIN json_loads(original_details_json)
    THEN json_loads(original_details_json)["status_message"]
    ELSE "Task was in '" \o original_status \o "' state."

ArchivalReason(original_status) ==
    IF original_status = TASK_STATUS_SUCCESS
    THEN "New main task started, old successful task archived."
    ELSE "New main task started, stale task (status: " \o original_status
         \o ") has been archived."

ArchivedDetails(original_status, original_details_json) ==
    [log |-> <<"[Archived] " \o ArchivalReason(original_status)
               \o ". Original summary: "
               \o OriginalStatusMessage(original_status, original_details_json)>>,
     original_status_before_archival |-> original_status,
     archival_reason |-> ArchivalReason(original_status)]

\* UPDATE task_status SET status, details, progress = 100, timestamp = NOW()
ArchivedRow(row, original_status, original_details_json, t) ==
    [row EXCEPT !.status = TASK_STATUS_REVOKED,
                !.details = json_dumps(ArchivedDetails(original_status, original_details_json)),
                !.progress = 100,
                !.timestamp = t]

\* an UPDATE ... WHERE task_id = %s, without the status
ArchiveGuard_Unguarded(row, original_status) == TRUE

\* ... WHERE task_id = %s AND status = %s
ArchiveGuard(row, original_status) == row.status = original_status

\* db.commit(): the uncommitted updates become the rows of the table
Committed(st, pending) ==
    [t \in DOMAIN st |-> IF t \in DOMAIN pending THEN pending[t] ELSE st[t]]

\* a failure after which the updates already made stay in the table
RolledBack_Partial(st, pending) == Committed(st, pending)

\* db.rollback(): none of the uncommitted updates remains
RolledBack(st, pending) == st

SweepResponse(outcome, n) == [op |-> "sweep", outcome |-> outcome, archived_count |-> n]

\* the SELECT of the roots to archive; with none, the sweep ends here
SweepSelect(dbError) ==
    /\ sweep = IdleSweep
    /\ ops < MaxOps
    /\ ops' = ops + 1
    /\ IF dbError
       THEN /\ sweep' = sweep
            /\ ret' = SweepResponse("rolled_back", 0)
       ELSE \E tasks \in Orders(SweepSelected(store)) :
               IF tasks = <<>>
               THEN /\ sweep' = sweep
                    /\ ret' = SweepResponse("nothing_to_clean", 0)
               ELSE /\ sweep' = [IdleSweep EXCEPT
                                    !.pc = "loop",
                                    !.tasks_to_archive =
                                        [i \in 1..Len(tasks) |->
                                            [task_id |-> tasks[i],
                                             status |-> store[tasks[i]].status,
                                             details |-> store[tasks[i]].details]]]
                    /\ ret' = NoResponse
    /\ UNCHANGED <<store, jobs, sent, now, notifier, calls>>

\* one round of the loop: the guarded UPDATE of one selected row, not yet committed
SweepArchive(dbError) ==
    /\ sweep.pc = "loop"
    /\ sweep.tasks_to_archive # <<>>
    /\ LET task_row == Head(sweep.tasks_to_archive)
           task_id == task_row.task_id
       IN  IF dbError
           THEN /\ sweep' = IdleSweep
                /\ store' = RolledBack(store, sweep.pending)
                /\ ret' = SweepResponse("rolled_back", sweep.archived_count)
           ELSE /\ ret' = NoResponse
                /\ store' = store
                /\ sweep' = [sweep EXCEPT
                      !.tasks_to_archive = Tail(@),
                      !.archived_count = @ + 1,
                      !.pending =
                          IF ArchiveGuard(store[task_id], task_row.status)
                          THEN [t \in DOMAIN @ \cup {task_id} |->
                                   IF t = task_id
                                   THEN ArchivedRow(store[task_id], task_row.status,
                                                    task_row.details, now)
                                   ELSE @[t]]
                          ELSE @]
    /\ UNCHANGED <<jobs, sent, now, notifier, calls, ops>>

\* after the loop: db.commit() when archived_count > 0
SweepCommit(dbError) ==
    /\ sweep.pc = "loop"
    /\ sweep.tasks_to_archive = <<>>
    /\ sweep' = IdleSweep
    /\ IF dbError
       THEN /\ store' = RolledBack(store, sweep.pending)
            /\ ret' = SweepResponse("rolled_back", sweep.archived_count)
       ELSE /\ store' = Committed(store, sweep.pending)
            /\ ret' = SweepResponse("archived", sweep.archived_count)
    /\ UNCHANGED <<jobs, sent, now, notifier, calls, ops>>

---------------------------------------------------------------------------
(* The workers (tasks.py) and the queue engine: the environment            *)

\* whether save_task_status raises to its caller when the store fails: the
\* psycopg2.Error is caught, logged and rolled back, and the function returns
SaveRaises(dbError) == FALSE

\* what the caller of save_task_status passed and got: dbError tells whether the
\* store failed, raised whether the call raised
SaveResponse(task_id, status, progress, details, dbError) ==
    [op |-> "save", arg |-> task_id, status |-> status, progress |-> progress,
     details |-> details, dbError |-> dbError, raised |-> SaveRaises(dbError)]

\* a worker, or the code that enqueues a task, reports a status:
\* save_task_status(task_id, task_type, status, parent_task_id, sub_type_identifier,
\* progress, details)
WorkerSave(task_id, status, progress, details, dbError) ==
    /\ ops < MaxOps
    /\ ops' = ops + 1
    /\ task_id \notin Locked
    /\ store' = SavedStore(store, now, task_id, TaskTypeOf(task_id), status,
                           ParentOf(task_id), SubTypeOf(task_id), progress, details, dbError)
    /\ ret' = SaveResponse(task_id, status, progress, details, dbError)
    /\ UNCHANGED <<jobs, sent, now, notifier, calls, sweep>>

NewJob == [status |-> "queued", meta |-> EmptyDict, exc_info |-> NULL]

\* the engine moves a job on: enqueued, picked up by a worker, finished or failed,
\* and purged once it is over
EngineStep(job_id, to) ==
    /\ ops < MaxOps
    /\ ops' = ops + 1
    /\ IF job_id \notin DOMAIN jobs
       THEN /\ to = "queued"
            /\ jobs' = [j \in DOMAIN jobs \cup {job_id} |->
                           IF j = job_id THEN NewJob ELSE jobs[j]]
       ELSE IF to = "gone"
            THEN /\ jobs[job_id].status \in EngineTerminal
                 /\ jobs' = [j \in DOMAIN jobs \ {job_id} |-> jobs[j]]
            ELSE /\ \/ jobs[job_id].status = "queued" /\ to = "started"
                    \/ jobs[job_id].status = "started" /\ to \in {"finished", "failed"}
                 /\ jobs' = [jobs EXCEPT ![job_id].status = to]
    /\ ret' = NoResponse
    /\ UNCHANGED <<store, sent, now, notifier, calls, sweep>>

\* time passes
Tick ==
    /\ now < MaxTime
    /\ now' = now + 1
    /\ ret' = NoResponse
    /\ UNCHANGED <<store, jobs, sent, calls, sweep, ops, notifier>>

---------------------------------------------------------------------------
(* The reads that surface a task                                           *)

Max(a, b) == IF a >= b THEN a ELSE b

\* get_task_info_from_db: running_time_seconds
RunningTimeById(start_time, end_time, t) ==
    IF start_time = NoTime
    THEN 0
    ELSE Max(0, (IF end_time # NoTime THEN end_time ELSE t) - start_time)

\* get_last_overall_task_status_endpoint: running_time_seconds
RunningTimeLast(start_time, end_time, t) ==
    IF start_time # NoTime /\ start_time # 0
    THEN Max(0, (IF end_time # NoTime THEN end_time ELSE t) - start_time)
    ELSE 0

\* get_active_tasks_endpoint: running_time_seconds
RunningTimeActive(start_time, end_time, t) ==
    IF start_time # NoTime /\ start_time # 0
    THEN Max(0, t - start_time)
    ELSE 0

\* ORDER BY timestamp DESC LIMIT 1 over the rows S
MostRecent(st, S) == {t \in S : \A u \in S : st[u].timestamp <= st[t].timestamp}

\* WHERE parent_task_id IS NULL
LastTaskRows(st) == {t \in DOMAIN st : st[t].parent_task_id = NULL}

\* WHERE parent_task_id IS NULL AND status IN (PENDING, STARTED, PROGRESS)
ActiveTaskRows(st) ==
    {t \in DOMAIN st : /\ st[t].parent_task_id = NULL
                       /\ st[t].status \in {TASK_STATUS_PENDING, TASK_STATUS_STARTED,
                                            TASK_STATUS_PROGRESS}}

\* f"... ({len(log_entries) - 10} earlier log entries truncated)"
EarlierTruncated(n) == "... (" \o ToString(n) \o " earlier log entries truncated)"

\* the log of a response: the last 10 entries behind one summary entry
ResponseLog(details) ==
    IF "log" \in DOMAIN details /\ IsList(details["log"]) /\ Len(details["log"]) > 10
    THEN Put(details, "log",
             <<EarlierTruncated(Len(details["log"]) - 10)>> \o LastN(details["log"], 10))
    ELSE details

\* a details column holding text that json.loads rejects
BadJsonText == [kind |-> "text", raw |-> "{not json"]

\* the details of the last-task view: parsed when the column parses (and its log
\* cut to the last 10 entries), else left as the column held them
LastTaskDetails(details_json) ==
    IF details_json = SqlNullDetails
    THEN details_json
    ELSE IF json_loads_ok(details_json)
         THEN ResponseLog(json_loads(details_json))
         ELSE details_json

\* the fallback of the active-task view for a column that does not parse
ParseErrorDetails(details_json) ==
    [raw_details |-> details_json, error |-> "Failed to parse details JSON."]

\* the details of the active-task view: parsed and pruned of
\* clustering_run_job_ids and checked_album_ids (and of initial_centroids inside
\* best_params, which no details of this model hold), else the fallback
ActiveTaskDetails(details_json) ==
    IF details_json = SqlNullDetails
    THEN details_json
    ELSE IF json_loads_ok(details_json)
         THEN Pop(Pop(json_loads(details_json), "clustering_run_job_ids"),
                  "checked_album_ids")
         ELSE ParseErrorDetails(details_json)

\* what a read answers: the row it read (row, at) and the fields it returns
ReadResponse(view, task_id, row, running_time_seconds, details) ==
    [op |-> view, arg |-> task_id, row |-> row, at |-> now, code |-> 200,
     running_time_seconds |-> running_time_seconds, details |-> details]

\* the read found no row
NoRowResponse(view) == [op |-> view, arg |-> NULL]

\* get_task_info_from_db(task_id)
GetTaskInfo(task_id) ==
    /\ ret' = IF task_id \in DOMAIN store
              THEN ReadResponse("task_info", task_id, store[task_id],
                                RunningTimeById(store[task_id].start_time,
                                                store[task_id].end_time, now),
                                store[task_id].details)
              ELSE NoRowResponse("task_info")
    /\ UNCHANGED <<store, jobs, sent, now, notifier, calls, sweep, ops>>

\* GET /api/last_task
GetLastTask ==
    /\ IF LastTaskRows(store) = {}
       THEN ret' = NoRowResponse("last_task")
       ELSE \E t \in MostRecent(store, LastTaskRows(store)) :
               ret' = ReadResponse("last_task", t, store[t],
                                   RunningTimeLast(store[t].start_time,
                                                   store[t].end_time, now),
                                   LastTaskDetails(store[t].details))
    /\ UNCHANGED <<store, jobs, sent, now, notifier, calls, sweep, ops>>

\* GET /api/active_tasks
GetActiveTasks ==
    /\ IF ActiveTaskRows(store) = {}
       THEN ret' = NoRowResponse("active_tasks")
       ELSE \E t \in MostRecent(store, ActiveTaskRows(store)) :
               ret' = ReadResponse("active_tasks", t, store[t],
                                   RunningTimeActive(store[t].start_time,
                                                     store[t].end_time, now),
                                   ActiveTaskDetails(store[t].details))
    /\ UNCHANGED <<store, jobs, sent, now, notifier, calls, sweep, ops>>

---------------------------------------------------------------------------
(* get_task_status_endpoint: the engine's view and the store's row of a    *)
(* task, reconciled                                                        *)

\* dict.get(key, default)
Get(d, k, default) == IF k \in DOMAIN d THEN d[k] ELSE default

\* 'analysis' in task_type
IsAnalysisType(task_type) ==
    task_type \in {"main_analysis", "album_analysis", "track_analysis"}

\* the response seeded from the engine: UNKNOWN without a job, else the job's
\* status and metadata
EngineView(js, task_id) ==
    IF task_id \notin DOMAIN js
    THEN [state |-> "UNKNOWN", status_message |-> "Task ID not found in RQ or DB.",
          progress |-> 0, details |-> EmptyDict]
    ELSE LET job == js[task_id]
             state == job.status
             status_message == Get(job.meta, "status_message", state)
             progress == Get(job.meta, "progress", 0)
             details == Get(job.meta, "details", EmptyDict)
         IN  IF state = "failed"
             THEN [state |-> state, status_message |-> "FAILED", progress |-> progress,
                   details |-> Put(details, "error_message",
                                   IF job.exc_info # NULL THEN job.exc_info
                                   ELSE "Job failed without error info.")]
             ELSE IF state = "finished"
                  THEN [state |-> state, status_message |-> "SUCCESS", progress |-> 100,
                        details |-> details]
                  ELSE IF state = "canceled"
                       THEN [state |-> state, status_message |-> "CANCELED",
                             progress |-> 100, details |-> details]
                       ELSE [state |-> state, status_message |-> status_message,
                             progress |-> progress, details |-> details]

\* a reconciliation that takes the row's status only if the engine has no job
ReconciledState_EngineFirst(engine_state, db_status) ==
    IF db_status = TASK_STATUS_REVOKED
    THEN "REVOKED"
    ELSE IF engine_state = "UNKNOWN" THEN db_status ELSE engine_state

\* a reconciliation that takes the row's status whatever the engine reports
ReconciledState_StoreWins(engine_state, db_status) ==
    IF db_status = TASK_STATUS_REVOKED THEN "REVOKED" ELSE db_status

\* a reconciliation in which a terminal engine state beats the row's REVOKED
ReconciledState_EngineWins(engine_state, db_status) ==
    IF engine_state \notin EngineTerminal THEN db_status ELSE engine_state

\* the state after the store's row is taken into account
ReconciledState(engine_state, db_status) ==
    IF db_status = TASK_STATUS_REVOKED
    THEN "REVOKED"
    ELSE IF engine_state \notin EngineTerminal THEN db_status ELSE engine_state

ReconciledMessage(engine_message, db_status) ==
    IF db_status = TASK_STATUS_REVOKED THEN "Task revoked." ELSE engine_message

\* a reconciliation that reports every terminal row as complete
ReconciledProgress_TerminalFull(db_progress, db_status) ==
    IF db_status \in TerminalStatuses THEN 100 ELSE db_progress

\* response['progress'] = db_task_info.get('progress', ...), and 100 for a REVOKED row
ReconciledProgress(db_progress, db_status) ==
    IF db_status = TASK_STATUS_REVOKED THEN 100 ELSE db_progress

\* db_details = json.loads(details) if details else {}
DbDetails(details_json) ==
    IF details_json = SqlNullDetails THEN EmptyDict ELSE json_loads(details_json)

\* a handler that answers not-found whenever the table has no row
NotFoundState_NoRow(state) == TRUE

\* elif response['state'] == 'UNKNOWN': without a row, the request is answered
\* 404 if the engine had no job either
NotFoundState(state) == state = "UNKNOWN"

\* the response of get_task_status_endpoint(task_id) over the engine js and the
\* table st at time t
StatusResponse(js, st, t, task_id) ==
    LET seed == EngineView(js, task_id) IN
    IF task_id \in DOMAIN st
    THEN LET row == st[task_id] IN
         IF row.details # SqlNullDetails /\ ~json_loads_ok(row.details)
         THEN [op |-> "status", arg |-> task_id, code |-> 500]
         ELSE LET merged == Merge(DbDetails(row.details), seed.details)
                  pruned == IF IsAnalysisType(row.task_type)
                            THEN Pop(merged, "checked_album_ids") ELSE merged
              IN  [op |-> "status", arg |-> task_id, code |-> 200,
                   state |-> ReconciledState(seed.state, row.status),
                   status_message |-> ReconciledMessage(seed.status_message, row.status),
                   progress |-> ReconciledProgress(row.progress, row.status),
                   details |-> ResponseLog(pruned),
                   task_type_from_db |-> row.task_type,
                   running_time_seconds |->
                       RunningTimeById(row.start_time, row.end_time, t)]
    ELSE [op |-> "status", arg |-> task_id,
          code |-> IF NotFoundState(seed.state) THEN 404 ELSE 200,
          state |-> seed.state,
          status_message |-> seed.status_message,
          progress |-> seed.progress,
          details |-> ResponseLog(seed.details),
          task_type_from_db |-> NULL,
          running_time_seconds |-> 0]

\* a handler that saves the metadata it changed on the Job object it fetched
JobsAfterStatus_MetaSaved(js, task_id) ==
    IF task_id \in DOMAIN js /\ js[task_id].status = "failed"
    THEN [js EXCEPT ![task_id].meta = Put(@, "details", EngineView(js, task_id).details)]
    ELSE js

\* the engine's jobs after get_task_status_endpoint: the handler writes
\* error_message into job.meta['details'] of the Job object it fetched, and never
\* saves the job
JobsAfterStatus(js, task_id) == js

\* GET /api/status/<task_id>
GetTaskStatus(task_id) ==
    /\ ret' = StatusResponse(jobs, store, now, task_id)
    /\ jobs' = JobsAfterStatus(jobs, task_id)
    /\ UNCHANGED <<store, sent, now, notifier, calls, sweep, ops>>

---------------------------------------------------------------------------
(* listen_for_index_reloads: the background thread that listens on the     *)
(* channel 'index-updates'                                                 *)

\* the bytes a publisher sends for a text: its UTF-8 encoding
Encode(text) == [valid |-> TRUE, text |-> text]

\* bytes that are not the UTF-8 encoding of any text
UndecodableBytes == [valid |-> FALSE, text |-> ""]

\* message['data'].decode('utf-8') raises UnicodeDecodeError on such bytes
decode_ok(data) == data.valid

decode(data) == data.text

\* the first event pubsub.listen() yields: the confirmation of the subscription
SubscribeEvent == [type |-> "subscribe", data |-> Encode("1")]

MessageEvent(data) == [type |-> "message", data |-> data]

\* the thread after pubsub.subscribe('index-updates'): inbox holds the events not
\* yet yielded by pubsub.listen(), consumed the events the loop has gone through,
\* reload_calls the calls of load_voyager_index_for_querying
StartedNotifier ==
    [alive |-> TRUE, inbox |-> <<SubscribeEvent>>, consumed |-> <<>>, reload_calls |-> <<>>]

\* a listener that takes every payload starting with 're' for the signal
IsReloadSignal_Prefix(message_data) == message_data \in {"reload", "rebuild"}

\* message_data == 'reload'
IsReloadSignal(message_data) == message_data = "reload"

\* some process publishes data on the channel
Publish(data) ==
    /\ Len(notifier.inbox) + Len(notifier.consumed) <= MaxMsgs
    /\ notifier' = [notifier EXCEPT !.inbox = Append(@, MessageEvent(data))]
    /\ ret' = NoResponse
    /\ UNCHANGED <<store, jobs, sent, now, calls, sweep, ops>>

\* a loop without the try around the reload hook: an exception of the hook ends
\* the thread
ListenerStep_HookEndsThread(hookError) ==
    /\ notifier.alive
    /\ notifier.inbox # <<>>
    /\ LET message == Head(notifier.inbox)
           taken == [notifier EXCEPT !.inbox = Tail(@), !.consumed = Append(@, message)]
       IN  IF message.type = "message"
           THEN IF decode_ok(message.data)
                THEN IF IsReloadSignal(decode(message.data))
                     THEN notifier' = [taken EXCEPT !.reload_calls =
                                          Append(@, [force_reload |-> TRUE,
                                                     raised |-> hookError]),
                                                    !.alive = ~hookError]
                     ELSE notifier' = taken
                ELSE notifier' = [taken EXCEPT !.alive = FALSE]
           ELSE notifier' = taken
    /\ ret' = NoResponse
    /\ UNCHANGED <<store, jobs, sent, now, calls, sweep, ops>>

\* one round of the loop over pubsub.listen(); an exception of the reload hook
\* (hookError) is caught and logged, an undecodable payload ends the thread
ListenerStep(hookError) ==
    /\ notifier.alive
    /\ notifier.inbox # <<>>
    /\ LET message == Head(notifier.inbox)
           taken == [notifier EXCEPT !.inbox = Tail(@), !.consumed = Append(@, message)]
       IN  IF message.type = "message"
           THEN IF decode_ok(message.data)
                THEN IF IsReloadSignal(decode(message.data))
                     THEN notifier' = [taken EXCEPT !.reload_calls =
                                          Append(@, [force_reload |-> TRUE,
                                                     raised |-> hookError])]
                     ELSE notifier' = taken
                ELSE notifier' = [taken EXCEPT !.alive = FALSE]
           ELSE notifier' = taken
    /\ ret' = NoResponse
    /\ UNCHANGED <<store, jobs, sent, now, calls, sweep, ops>>

---------------------------------------------------------------------------
(* The system: requests, workers, the engine and the sweep, interleaved    *)

Callers == {"a"}

\* the tasks, statuses and details the environment of Spec uses
SpecTasks == {"R", "C1"}

SpecTypes == {TaskTypeOf(t) : t \in SpecTasks}

SpecStatuses ==
    {TASK_STATUS_PENDING, TASK_STATUS_PROGRESS, TASK_STATUS_SUCCESS, TASK_STATUS_FAILURE}

SpecProgress == {50}

SpecDetails == {[status_message |-> "Analysing albums"]}

\* a row left by a version of the table without start_time and end_time
LegacyRow(task_id, status) ==
    [parent_task_id |-> ParentOf(task_id),
     task_type |-> TaskTypeOf(task_id),
     sub_type_identifier |-> SubTypeOf(task_id),
     status |-> status,
     progress |-> 0,
     details |-> SqlNullDetails,
     timestamp |-> 1,
     start_time |-> NoTime,
     end_time |-> NoTime]

NoRows == [t \in {} |-> TRUE]

InitStores == {NoRows, [t \in {"R"} |-> LegacyRow(t, TASK_STATUS_STARTED)]}

Init ==
    /\ store \in InitStores
    /\ jobs = NoJobs
    /\ sent = [t \in TaskIds |-> <<>>]
    /\ now = 1
    /\ notifier = StartedNotifier
    /\ calls = [c \in Callers |-> IdleCall]
    /\ sweep = IdleSweep
    /\ ret = NoResponse
    /\ ops = 0

\* the steps of the cancel requests in flight
CancelSteps(DbErrors, RqErrors) ==
    \/ \E c \in Callers, e1 \in DbErrors, e2 \in RqErrors : CancelEnter(c, e1, e2)
    \/ \E c \in Callers, e \in RqErrors : CancelInterrupt(c, e)
    \/ \E c \in Callers : CancelChildren(c)
    \/ \E c \in Callers : CancelLoop(c)

\* the steps of the sweep in flight
SweepSteps(DbErrors) ==
    \/ \E e \in DbErrors : SweepArchive(e)
    \/ \E e \in DbErrors : SweepCommit(e)

Next ==
    \/ \E t \in SpecTasks, s \in SpecStatuses, p \in SpecProgress, d \in SpecDetails :
          WorkerSave(t, s, p, d, FALSE)
    \/ \E j \in SpecTasks, to \in JobStatuses \cup {"gone"} : EngineStep(j, to)
    \/ Tick
    \/ \E c \in Callers, t \in SpecTasks : CancelTaskEndpoint(c, t)
    \/ \E c \in Callers, p \in SpecTypes : CancelAllEndpoint(c, p)
    \/ CancelSteps(BOOLEAN, BOOLEAN)
    \/ \E e \in BOOLEAN : SweepSelect(e)
    \/ SweepSteps(BOOLEAN)

Spec == Init /\ [][Next]_vars

---------------------------------------------------------------------------
(* Properties of the store under Spec                                      *)

IsTerminal(st, t) == t \in DOMAIN st /\ st[t].status \in TerminalStatuses

\* C1: once a task's stored status is SUCCESS, FAILURE or REVOKED, no step other
\* than the commit of the archival sweep changes it to a different value.
C1_TerminalStatusKept ==
    [][(\E e \in BOOLEAN : SweepCommit(e))
       \/ \A t \in DOMAIN store :
             store[t].status \in TerminalStatuses => store'[t].status = store[t].status]_vars

\* C3: a cancel request for a task whose stored status is terminal is answered
\* "already terminal" (400) by the check, and that step starts no recursion, writes
\* no row and sends no command; the bulk endpoint hands no terminal task to the
\* recursion, and its selection writes no row and sends no command.
C3_TerminalCancelRejected ==
    [][/\ \A c \in Callers, t \in TaskIds :
             CancelTaskEndpoint(c, t) /\ IsTerminal(store, t)
             => /\ ret' = CancelResponse(t, 400, "already_terminal", 0)
                /\ calls'[c] = IdleCall
                /\ store' = store /\ jobs' = jobs /\ sent' = sent
       /\ \A c \in Callers, p \in TaskTypes :
             CancelAllEndpoint(c, p)
             => /\ \A i \in 1..Len(calls'[c].stack) : ~IsTerminal(store, calls'[c].stack[i].job_id)
                /\ \A i \in 1..Len(calls'[c].todo) : ~IsTerminal(store, calls'[c].todo[i])
                /\ (\A t \in DOMAIN store : store[t].task_type = p => IsTerminal(store, t))
                   => calls'[c] = IdleCall /\ ret'.code = 404
                /\ store' = store /\ jobs' = jobs /\ sent' = sent]_vars

\* C3 witness: the check has just rejected the cancel of a task that is terminal
C3_Witness ==
    /\ ret.op = "cancel"
    /\ ret.message = "already_terminal"
    /\ IsTerminal(store, ret.arg)
    /\ \A c \in Callers : calls[c] = IdleCall

\* C6: every task whose stored status is terminal has end_time set.
C6_TerminalHasEndTime ==
    \A t \in DOMAIN store :
        store[t].status \in TerminalStatuses => store[t].end_time # NoTime

\* C7: an end_time that is set is never changed or cleared by a later step, and an
\* unset end_time of an existing row becomes set only by a write of a terminal status.
C7_EndTimeSetOnce ==
    [][\A t \in DOMAIN store :
          /\ store[t].end_time # NoTime => store'[t].end_time = store[t].end_time
          /\ store[t].end_time = NoTime /\ store'[t].end_time # NoTime
             => store'[t].status \in TerminalStatuses]_vars

\* C7 witness: a row whose end_time was set, and which was written again later
C7_Witness ==
    \E t \in DOMAIN store :
        /\ store[t].end_time # NoTime
        /\ store[t].timestamp > store[t].end_time

\* C8: the start_time of an existing row, once set, is never changed by a later step.
C8_StartTimeFirstWriteWins ==
    [][\A t \in DOMAIN store :
          store[t].start_time # NoTime
          => t \in DOMAIN store' /\ store'[t].start_time = store[t].start_time]_vars

\* C8 witness: a row that was written again after its start_time was set, by a
\* cancellation or by the archival sweep
C8_Witness ==
    \E t \in DOMAIN store :
        /\ store[t].start_time # NoTime
        /\ store[t].timestamp > store[t].start_time
        /\ store[t].status = TASK_STATUS_REVOKED

---------------------------------------------------------------------------
(* SpecSerial: one request at a time, run to its end before the next one   *)
(* starts, over a task tree that exists already; no other writer, and no   *)
(* error of the store or of the engine.                                    *)

Tree == {"R", "C1", "C2", "G"}

\* the statuses of the rows at the start: the tree all non-terminal, or with a
\* finished child; the second root finished, or stale
SerialStatuses3 ==
    [R |-> "PROGRESS", C1 |-> "PROGRESS", C2 |-> "SUCCESS", G |-> "STARTED", R2 |-> "FAILURE"]

SerialStatuses ==
    {[R |-> "PENDING", C1 |-> "PENDING", C2 |-> "PENDING", G |-> "PENDING", R2 |-> "SUCCESS"],
     [R |-> "PROGRESS", C1 |-> "STARTED", C2 |-> "PENDING", G |-> "PROGRESS", R2 |-> "STARTED"],
     SerialStatuses3}

\* the rows as save_task_status inserted them
SerialStore(v) ==
    [t \in TaskIds |->
        UpsertRow(NoRows, 1, t, TaskTypeOf(t), v[t], ParentOf(t), SubTypeOf(t), 50,
                  DetailsJson(v[t], [status_message |-> "Analysing albums"]))]

\* what the engine holds for each task of the tree at the start
SerialJobChoices(t) ==
    CASE t = "R" -> {"absent", "queued", "started", "finished"}
      [] t = "C1" -> {"absent", "started", "failed"}
      [] t = "C2" -> {"queued", "started", "canceled"}
      [] OTHER -> {"absent", "queued", "finished"}

SerialJobs ==
    {[t \in {x \in Tree : f[x] # "absent"} |-> [NewJob EXCEPT !.status = f[t]]] :
        f \in {g \in [Tree -> JobStatuses \cup {"absent"}] :
                  \A t \in Tree : g[t] \in SerialJobChoices(t)}}

SerialInit ==
    /\ store \in {SerialStore(v) : v \in SerialStatuses}
    /\ jobs \in SerialJobs
    /\ sent = [t \in TaskIds |-> <<>>]
    /\ now = 1
    /\ notifier = StartedNotifier
    /\ calls = [c \in Callers |-> IdleCall]
    /\ sweep = IdleSweep
    /\ ret = NoResponse
    /\ ops = 0

\* no request is in flight
Quiet == sweep = IdleSweep /\ \A c \in Callers : calls[c] = IdleCall

SerialNext ==
    \/ Quiet /\ Tick
    \/ Quiet /\ \E c \in Callers, t \in SpecTasks : CancelTaskEndpoint(c, t)
    \/ CancelSteps({FALSE}, {FALSE})
    \/ Quiet /\ SweepSelect(FALSE)
    \/ SweepSteps({FALSE})

SpecSerial == SerialInit /\ [][SerialNext]_vars

\* the tree R -> {C1, C2}, C1 -> {G}, its four tasks non-terminal, in the table s
\* (the statuses and parents of the rows)
TreeIntact(s) ==
    /\ Tree \subseteq DOMAIN s
    /\ \A t \in Tree : s[t].status \notin TerminalStatuses
    /\ \A t \in Tree : s[t].parent_task_id = ParentOf(t)

\* the jobs of the tree that exist in the engine js (job id -> status) and are not
\* finished, failed or canceled
LiveJobs(js) == {t \in Tree : t \in DOMAIN js /\ js[t] \notin EngineTerminal}

\* C2: when cancel(R) of the intact, non-terminal tree R -> {C1, C2}, C1 -> {G}
\* returns, R, C1, C2 and G are REVOKED in the store and the count is the number
\* of the four whose job existed and was not finished, failed or canceled when the
\* call was made.
C2_CancelTree ==
    [][\A c \in Callers :
          /\ calls[c].op = "cancel"
          /\ calls[c].arg = "R"
          /\ calls'[c] = IdleCall
          /\ TreeIntact(calls[c].at_call.store)
          => /\ \A t \in Tree : store'[t].status = TASK_STATUS_REVOKED
             /\ ret'.op = "cancel"
             /\ ret'.cancelled_jobs_count = Cardinality(LiveJobs(calls[c].at_call.jobs))]_vars

\* C2 witness: cancel(R) has returned 2 for a tree of which two jobs were live
\* (C2's queued, G's queued), one was over (R's finished) and one was gone (C1's)
C2_Witness ==
    /\ ret.op = "cancel"
    /\ ret.arg = "R"
    /\ ret.cancelled_jobs_count = 2
    /\ \A t \in Tree : store[t].status = TASK_STATUS_REVOKED
    /\ "C1" \notin DOMAIN jobs
    /\ "R" \in DOMAIN jobs
    /\ jobs["R"].status = "finished"
    /\ sent["C2"] = <<"cancel">>
    /\ sent["G"] = <<"cancel">>

\* C5, first run: when a run of the sweep has committed, no root task is left in
\* PENDING, STARTED, PROGRESS or SUCCESS.
\* C5, second run: a run of the sweep that starts right after a run of the sweep
\* selects nothing, archives zero and leaves the table as it is.
C5_SweepIdempotent ==
    [][/\ ret'.op = "sweep" /\ ret'.outcome = "archived"
          => SweepSelected(store') = {}
       /\ ret.op = "sweep" /\ (\E e \in BOOLEAN : SweepSelect(e))
          => /\ ret' = SweepResponse("nothing_to_clean", 0)
             /\ sweep' = IdleSweep
             /\ store' = store]_vars

\* C5 witness: a second run has just found nothing to clean, in a table where the
\* first run archived a root
C5_Witness ==
    /\ ret = SweepResponse("nothing_to_clean", 0)
    /\ ops = 2
    /\ \E t \in DOMAIN store :
          /\ store[t].details.kind = "json"
          /\ "original_status_before_archival" \in DOMAIN store[t].details.obj

---------------------------------------------------------------------------
(* SpecRecon: status reconciliation, over every pairing of a row of the    *)
(* store with a view of the engine                                         *)

ReconTasks == {"R", "C1"}

ReconProgress == {0, 50}

\* the details a writer may have persisted
ReconDetails ==
    {PyNone,
     [status_message |-> "Analysing albums"],
     [log |-> <<"e1", "e2">>, checked_album_ids |-> <<"a1", "a2">>]}

\* the rows R may have, as save_task_status inserted them at time 1
ReconStores ==
    {NoRows} \cup
    {[t \in {"R"} |-> UpsertRow(NoRows, 1, t, TaskTypeOf(t), s, ParentOf(t), SubTypeOf(t),
                                p, DetailsJson(s, d))] :
        s \in Statuses, p \in ReconProgress, d \in ReconDetails}

\* a log one entry longer than the status read returns in full
ReconLongLog == [i \in 1..(MAX_LOG_ENTRIES_STORED + 1) |-> "e" \o ToString(i)]

\* the metadata a worker may have put on its job
ReconMeta ==
    {EmptyDict,
     [progress |-> 30],
     [status_message |-> "Working", progress |-> 70, details |-> [current_album |-> "X"]],
     [details |-> [status_message |-> "Live", checked_album_ids |-> <<"a9">>,
                   log |-> ReconLongLog]]}

\* the jobs the engine may hold for R; only a failed job carries exc_info
ReconJobs ==
    {NoJobs} \cup
    {[t \in {"R"} |-> [status |-> js, meta |-> m, exc_info |-> NULL]] :
        js \in JobStatuses, m \in ReconMeta} \cup
    {[t \in {"R"} |-> [status |-> "failed", meta |-> m, exc_info |-> "Traceback"]] :
        m \in ReconMeta}

ReconInit ==
    /\ store \in ReconStores
    /\ jobs \in ReconJobs
    /\ sent = [t \in TaskIds |-> <<>>]
    /\ now = 1
    /\ notifier = StartedNotifier
    /\ calls = [c \in Callers |-> IdleCall]
    /\ sweep = IdleSweep
    /\ ret = NoResponse
    /\ ops = 0

ReconNext ==
    \/ \E t \in ReconTasks : GetTaskStatus(t)
    \/ Tick

SpecRecon == ReconInit /\ [][ReconNext]_vars

\* C4: the status of a task whose row is REVOKED is answered with state REVOKED,
\* message 'Task revoked.' and progress 100, whatever the engine holds for the task
\* (no job, or a job queued, started, finished, failed or canceled) and whatever
\* progress the job's metadata or the row carries.
C4_RevokedOverrides ==
    /\ ret.op = "status"
    /\ ret.arg \in DOMAIN store
    /\ store[ret.arg].status = TASK_STATUS_REVOKED
    => /\ ret.code = 200
       /\ ret.state = "REVOKED"
       /\ ret.status_message = "Task revoked."
       /\ ret.progress = 100

\* C4 witness: the status of a REVOKED row with progress 50 has been answered while
\* the engine reports the job finished with progress 70 in its metadata
C4_Witness ==
    /\ ret.op = "status"
    /\ ret.arg = "R"
    /\ "R" \in DOMAIN store
    /\ store["R"].status = TASK_STATUS_REVOKED
    /\ store["R"].progress = 50
    /\ "R" \in DOMAIN jobs
    /\ jobs["R"].status = "finished"
    /\ "progress" \in DOMAIN jobs["R"].meta
    /\ jobs["R"].meta["progress"] = 70
    /\ ret.state = "REVOKED"
    /\ ret.progress = 100

---------------------------------------------------------------------------
(* SpecViews: the workers write, time passes, and the three reads that     *)
(* surface a task are served                                               *)

ViewTasks == {"R", "C1"}

ViewsNext ==
    \/ \E t \in ViewTasks, s \in SpecStatuses, p \in SpecProgress :
          WorkerSave(t, s, p, PyNone, FALSE)
    \/ Tick
    \/ \E t \in ViewTasks : GetTaskInfo(t)
    \/ GetLastTask
    \/ GetActiveTasks

SpecViews == Init /\ [][ViewsNext]_vars

\* C9: every read that surfaces a task (by id, last task, active task) answers a
\* running_time_seconds that is >= 0, is 0 when the row's start_time is unset, and
\* is otherwise max(0, (end_time if set else now) - start_time) of the row at the
\* time of the read.
C9_RunningTime ==
    /\ ret.op \in {"task_info", "last_task", "active_tasks"}
    /\ ret.arg # NULL
    => /\ ret.running_time_seconds >= 0
       /\ ret.running_time_seconds =
             IF ret.row.start_time = NoTime
             THEN 0
             ELSE Max(0, (IF ret.row.end_time # NoTime THEN ret.row.end_time ELSE ret.at)
                         - ret.row.start_time)

---------------------------------------------------------------------------
(* SpecLog: writes whose details carry a log of every length up to          *)
(* MaxLogLen, with and without an annotation left by an earlier write      *)

\* the log a worker has accumulated after n entries
LogEntries(n) == [i \in 1..n |-> "e" \o ToString(i)]

LogStatuses == {TASK_STATUS_PROGRESS, TASK_STATUS_FAILURE, TASK_STATUS_SUCCESS}

\* the details of the writes: the log alone, or the log in a dict that went
\* through an earlier write and kept its annotation; no log; a log that is no list
LogDetails ==
    {[log |-> LogEntries(n)] : n \in 0..MaxLogLen} \cup
    {[log |-> LogEntries(n), log_storage_info |-> LogStorageInfo(MaxLogLen)] :
        n \in 0..MaxLogLen} \cup
    {[status_message |-> "Done", log_storage_info |-> LogStorageInfo(MaxLogLen)],
     [log |-> NotAList, status_message |-> "Done"]}

LogNext ==
    \/ \E s \in LogStatuses, d \in LogDetails : WorkerSave("R", s, 50, d, FALSE)
    \/ Tick

SpecLog == Init /\ [][LogNext]_vars

\* C10: after a write with a status other than SUCCESS whose details hold a log
\* list, the row holds the last 10 entries of the log, in order, and an annotation
\* with the original length when the log had more than 10 entries; it holds the
\* log as written and no annotation when the log had 10 entries or fewer.
C10_LogPersisted ==
    /\ ret.op = "save"
    /\ ret.status # TASK_STATUS_SUCCESS
    /\ ret.details # PyNone
    /\ "log" \in DOMAIN ret.details
    /\ IsList(ret.details["log"])
    => LET log == ret.details["log"]
           persisted == json_loads(store[ret.arg].details)
       IN  IF Len(log) > 10
           THEN /\ Len(persisted["log"]) = 10
                /\ \A i \in 1..10 : persisted["log"][i] = log[Len(log) - 10 + i]
                /\ "log_storage_info" \in DOMAIN persisted
                /\ persisted["log_storage_info"] =
                      "Log in DB truncated to last 10 entries. Original length: "
                      \o ToString(Len(log)) \o "."
           ELSE /\ persisted["log"] = log
                /\ "log_storage_info" \notin DOMAIN persisted

\* C10 witness: a PROGRESS write with a log of 12 entries has been persisted as the
\* entries e3..e12
C10_Witness ==
    /\ ret.op = "save"
    /\ ret.status = TASK_STATUS_PROGRESS
    /\ Len(ret.details["log"]) = 12
    /\ "R" \in DOMAIN store
    /\ store["R"].details.kind = "json"
    /\ Len(store["R"].details.obj["log"]) = 10
    /\ store["R"].details.obj["log"][1] = "e3"
    /\ store["R"].details.obj["log"][10] = "e12"

---------------------------------------------------------------------------
(* SpecReload: processes publish text payloads on 'index-updates' and the  *)
(* listener goes through them                                              *)

ReloadTexts == {"reload", "Reload", "rebuild"}

ReloadNext ==
    \/ \E t \in ReloadTexts : Publish(Encode(t))
    \/ \E e \in BOOLEAN : ListenerStep(e)
    \/ Tick

SpecReload == Init /\ [][ReloadNext]_vars

\* C11: at every moment the reload hook has been called, with the force flag, once
\* for each payload 'reload' the listener has gone through, and not at all for
\* the other payloads and for the events that are no message.
C11_OneCallPerReload ==
    /\ Len(notifier.reload_calls) =
          Cardinality({i \in 1..Len(notifier.consumed) :
                          /\ notifier.consumed[i].type = "message"
                          /\ notifier.consumed[i].data = Encode("reload")})
    /\ \A i \in 1..Len(notifier.reload_calls) : notifier.reload_calls[i].force_reload

\* C11 witness: the listener went through the confirmation, 'reload', 'rebuild'
\* and 'reload', and called the hook twice, the first call raising
C11_Witness ==
    /\ notifier.inbox = <<>>
    /\ notifier.consumed = <<SubscribeEvent, MessageEvent(Encode("reload")),
                             MessageEvent(Encode("rebuild")),
                             MessageEvent(Encode("reload"))>>
    /\ Len(notifier.reload_calls) = 2
    /\ notifier.reload_calls[1].raised

---------------------------------------------------------------------------
(* SpecCancel: cancel requests, one at a time, over the task tree, with an  *)
(* engine whose calls may raise; the store does not fail                   *)

CancelNext ==
    \/ Quiet /\ Tick
    \/ Quiet /\ \E c \in Callers, t \in SpecTasks : CancelTaskEndpoint(c, t)
    \/ CancelSteps({FALSE}, BOOLEAN)

SpecCancel == SerialInit /\ [][CancelNext]_vars

\* the row of task_id as the REVOKED write of a cancellation with this reason
\* leaves it
RevokedBy(st, task_id, reason) ==
    /\ task_id \in DOMAIN st
    /\ st[task_id].status = TASK_STATUS_REVOKED
    /\ st[task_id].progress = 100
    /\ st[task_id].details = json_dumps([message |-> reason])

\* C12: the step of a cancellation that enters a task with a row writes the row
\* (REVOKED, progress 100, details {message: reason}) and does not touch the
\* engine; the step that contacts the engine afterwards, whatever the engine
\* answers (no such job, a job that is over, a live job, an error), leaves the row
\* as written; and when the request returns, the row of the requested task is so.
C12_RevokedWhateverEngine ==
    [][\A c \in Callers :
          /\ calls[c].stack # <<>> /\ calls'[c].stack # <<>>
             /\ Head(calls[c].stack).pc = "enter" /\ Head(calls'[c].stack).pc = "rq"
             => /\ RevokedBy(store', Head(calls[c].stack).job_id, Head(calls[c].stack).reason)
                /\ jobs' = jobs
                /\ sent' = sent
          /\ calls[c].stack # <<>> /\ Head(calls[c].stack).pc = "rq"
             => /\ store' = store
                /\ RevokedBy(store', Head(calls[c].stack).job_id, Head(calls[c].stack).reason)
          /\ calls[c].op = "cancel" /\ calls'[c] = IdleCall
             => RevokedBy(store', calls[c].arg, ReasonApi(calls[c].arg))]_vars

\* C12 witness: cancel(R) has returned with nothing cancelled, the calls of the
\* engine having raised (R's job is still queued and no command was sent), and
\* R's row is REVOKED
C12_Witness ==
    /\ ret.op = "cancel"
    /\ ret.arg = "R"
    /\ ret.code = 400
    /\ "R" \in DOMAIN jobs
    /\ jobs["R"].status = "queued"
    /\ sent["R"] = <<>>
    /\ RevokedBy(store, "R", ReasonApi("R"))

---------------------------------------------------------------------------
(* SpecStoreFaults: status saves and cancel requests, one at a time, over  *)
(* a store whose writes may fail                                           *)

StoreFaultsNext ==
    \/ Quiet /\ \E t \in SpecTasks, s \in SpecStatuses, p \in SpecProgress,
                   d \in SpecDetails, e \in BOOLEAN : WorkerSave(t, s, p, d, e)
    \/ Quiet /\ \E j \in SpecTasks, to \in JobStatuses \cup {"gone"} : EngineStep(j, to)
    \/ Quiet /\ Tick
    \/ Quiet /\ \E c \in Callers, t \in SpecTasks : CancelTaskEndpoint(c, t)
    \/ CancelSteps(BOOLEAN, {FALSE})

SpecStoreFaults == Init /\ [][StoreFaultsNext]_vars

\* C13: a status save during which the store failed raises to its caller, and a
\* cancel request answers that cancellation was initiated only if the REVOKED
\* write of the requested task was persisted.
C13_StoreErrorSurfaced ==
    /\ ret.op = "save" /\ ret.dbError => ret.raised
    /\ ret.op = "cancel" /\ ret.code = 200
       => store[ret.arg].status = TASK_STATUS_REVOKED

---------------------------------------------------------------------------
(* SpecBadJson: the reads that return details, over rows whose details     *)
(* column holds NULL, JSON, or text that is no JSON                        *)

BadJsonStatuses == {TASK_STATUS_PROGRESS, TASK_STATUS_SUCCESS, TASK_STATUS_REVOKED}

\* the row of R as save_task_status inserted it, and the same row with a details
\* column that some other writer left unparseable
BadJsonStores ==
    {[t \in {"R"} |-> UpsertRow(NoRows, 1, t, TaskTypeOf(t), s, ParentOf(t), SubTypeOf(t),
                                p, DetailsJson(s, d))] :
        s \in BadJsonStatuses, p \in ReconProgress, d \in ReconDetails} \cup
    {[t \in {"R"} |-> UpsertRow(NoRows, 1, t, TaskTypeOf(t), s, ParentOf(t), SubTypeOf(t),
                                p, BadJsonText)] :
        s \in BadJsonStatuses, p \in ReconProgress}

BadJsonInit ==
    /\ store \in BadJsonStores
    /\ jobs \in ReconJobs
    /\ sent = [t \in TaskIds |-> <<>>]
    /\ now = 1
    /\ notifier = StartedNotifier
    /\ calls = [c \in Callers |-> IdleCall]
    /\ sweep = IdleSweep
    /\ ret = NoResponse
    /\ ops = 0

BadJsonNext ==
    \/ \E t \in ReconTasks : GetTaskStatus(t)
    \/ GetLastTask
    \/ GetActiveTasks
    \/ Tick

SpecBadJson == BadJsonInit /\ [][BadJsonNext]_vars

\* C14: a read that returns the details of a row whose details column is no valid
\* JSON (status reconciliation, last-task view, active-task view) answers 200
\* with details that hold the raw column and a parse-error marker.
C14_BadJsonFallback ==
    /\ ret.op = "status" /\ ret.arg \in DOMAIN store /\ store[ret.arg].details = BadJsonText
       => ret.code = 200 /\ ret.details = ParseErrorDetails(BadJsonText)
    /\ ret.op \in {"last_task", "active_tasks"} /\ ret.arg # NULL
          /\ ret.row.details = BadJsonText
       => ret.code = 200 /\ ret.details = ParseErrorDetails(BadJsonText)

---------------------------------------------------------------------------
(* Status reconciliation as a read, under SpecRecon                        *)

\* C15: a status request leaves the table, the jobs of the engine (status,
\* metadata, exc_info) and the commands sent to the engine as they were, for
\* every task id and every pairing of a row with an engine view.
C15_StatusReadOnly ==
    [][ret'.op = "status" => store' = store /\ jobs' = jobs /\ sent' = sent]_vars

\* C15 witness: the status of a failed job whose metadata holds details has been
\* answered with error_message among the details, and the job's metadata holds
\* no error_message
C15_Witness ==
    /\ ret.op = "status"
    /\ ret.code = 200
    /\ "error_message" \in DOMAIN ret.details
    /\ "R" \in DOMAIN jobs
    /\ jobs["R"].status = "failed"
    /\ "details" \in DOMAIN jobs["R"].meta
    /\ "error_message" \notin DOMAIN jobs["R"].meta["details"]
    /\ "R" \in DOMAIN store

---------------------------------------------------------------------------
(* The archival sweep on its own, under SpecSerial                         *)

\* the rows the sweep is meant to rewrite: roots in SUCCESS, PENDING, STARTED or
\* PROGRESS
Archivable(row) ==
    /\ row.parent_task_id = NULL
    /\ row.status \in {"SUCCESS", "PENDING", "STARTED", "PROGRESS"}

\* C16: a sweep that commits has rewritten every root in SUCCESS, PENDING, STARTED
\* or PROGRESS to REVOKED, progress 100 and details whose
\* original_status_before_archival is the status the row held, and has left every
\* column of every other row (roots in FAILURE or REVOKED, non-roots) as it was; a
\* sweep that finds nothing to clean found no such root and changed no row.
C16_SweepRewritesExactly ==
    [][/\ ret'.op = "sweep" /\ ret'.outcome = "archived"
          => /\ DOMAIN store' = DOMAIN store
             /\ \A t \in DOMAIN store :
                   IF Archivable(store[t])
                   THEN /\ store'[t].status = TASK_STATUS_REVOKED
                        /\ store'[t].progress = 100
                        /\ json_loads_ok(store'[t].details)
                        /\ json_loads(store'[t].details)["original_status_before_archival"]
                              = store[t].status
                   ELSE store'[t] = store[t]
       /\ ret'.op = "sweep" /\ ret'.outcome = "nothing_to_clean"
          => /\ store' = store
             /\ \A t \in DOMAIN store : ~Archivable(store[t])]_vars

\* C16 witness: a sweep has archived the root R, which was in PROGRESS, and left
\* the finished child C2 and the failed root R2 as they were
C16_Witness ==
    /\ ret = SweepResponse("archived", 1)
    /\ store["R"].status = TASK_STATUS_REVOKED
    /\ store["R"].progress = 100
    /\ json_loads(store["R"].details)["original_status_before_archival"] = "PROGRESS"
    /\ store["C2"].status = TASK_STATUS_SUCCESS
    /\ store["C2"].parent_task_id = "R"
    /\ store["R2"].status = TASK_STATUS_FAILURE
    /\ store["R2"].progress = 50

---------------------------------------------------------------------------
(* SpecSweepRace: a worker of the root R reports while the sweep runs      *)

RaceStatuses == {TASK_STATUS_PROGRESS, TASK_STATUS_FAILURE}

RaceProgress == {50, 60}

RaceDetails == {[status_message |-> "Analysing albums"], [status_message |-> "Clustering"]}

SweepRaceNext ==
    \/ \E s \in RaceStatuses, p \in RaceProgress, d \in RaceDetails :
          WorkerSave("R", s, p, d, FALSE)
    \/ Tick
    \/ SweepSelect(FALSE)
    \/ SweepSteps({FALSE})

SpecSweepRace == Init /\ [][SweepRaceNext]_vars

\* the selected row the sweep's loop is at
SweepAt == Head(sweep.tasks_to_archive)

\* the step is a round of the sweep's loop
IsSweepArchive ==
    /\ sweep.pc = "loop"
    /\ sweep.tasks_to_archive # <<>>
    /\ sweep'.pc = "loop"
    /\ sweep'.tasks_to_archive = Tail(sweep.tasks_to_archive)

\* C17 as stated: the sweep's UPDATE of a row takes effect only if the row still
\* holds what the sweep read (its status and its details), so that a row another
\* writer updated since the SELECT is left to that writer.
C17_NoClobber ==
    [][IsSweepArchive /\ SweepAt.task_id \in DOMAIN sweep'.pending
          => /\ store[SweepAt.task_id].status = SweepAt.status
             /\ store[SweepAt.task_id].details = SweepAt.details]_vars

\* C17 amended: the sweep's UPDATE of a row takes effect if and only if the row
\* still holds the status the sweep read; a row whose status another writer
\* changed since the SELECT is not rewritten, and the sweep's commit leaves its
\* status, progress and details as that writer wrote them.
C17_GuardedByStatus ==
    [][/\ IsSweepArchive
          => (SweepAt.task_id \in DOMAIN sweep'.pending
                 <=> store[SweepAt.task_id].status = SweepAt.status)
       /\ ret'.op = "sweep"
          => \A t \in DOMAIN store \ DOMAIN sweep.pending : store'[t] = store[t]]_vars

\* C17 witness: the sweep selected R, a worker then reported FAILURE, and the
\* sweep has committed without touching the row
C17_Witness ==
    /\ ret = SweepResponse("archived", 1)
    /\ "R" \in DOMAIN store
    /\ store["R"].status = TASK_STATUS_FAILURE
    /\ store["R"].progress = 60
    /\ store["R"].details = json_dumps([status_message |-> "Clustering"])

---------------------------------------------------------------------------
(* The archival sweep over a store that may fail, under Spec               *)

\* C18: a step of the sweep changes the table only when it commits, and then every
\* row the sweep has rewritten enters the table in that one step and no other
\* row changes; a sweep that fails, at its SELECT, in its loop or at its commit,
\* leaves the table as it is, returns to its caller and is over (no retry).
C18_SweepAllOrNothing ==
    [][/\ ret'.op = "sweep" /\ ret'.outcome = "rolled_back"
          => store' = store /\ sweep' = IdleSweep
       /\ sweep' # sweep /\ ~(ret'.op = "sweep" /\ ret'.outcome = "archived")
          => store' = store
       /\ ret'.op = "sweep" /\ ret'.outcome = "archived"
          => /\ sweep' = IdleSweep
             /\ \A t \in DOMAIN store :
                   store'[t] = IF t \in DOMAIN sweep.pending
                               THEN sweep.pending[t] ELSE store[t]]_vars

\* C18 witness: the sweep has failed after the UPDATE of one row, and the row is
\* in the table as it was selected
C18_Witness ==
    /\ ret = SweepResponse("rolled_back", 1)
    /\ sweep = IdleSweep
    /\ "R" \in DOMAIN store
    /\ store["R"].status \in SweepStatuses
    /\ store["R"].parent_task_id = NULL

---------------------------------------------------------------------------
(* The order of the writes of one cancellation                             *)

\* task t is below root in the table s (at most n levels down)
RECURSIVE IsUnder(_, _, _, _)
IsUnder(s, t, root, n) ==
    /\ n > 0
    /\ t \in DOMAIN s
    /\ s[t].parent_task_id # NULL
    /\ \/ s[t].parent_task_id = root
       \/ IsUnder(s, s[t].parent_task_id, root, n - 1)

\* the tasks below the requested task that call has revoked so far: their rows
\* were not REVOKED when the request arrived and are now
RevokedByCall(call) ==
    {t \in DOMAIN call.at_call.store :
        /\ IsUnder(call.at_call.store, t, call.arg, Cardinality(TaskIds))
        /\ call.at_call.store[t].status # TASK_STATUS_REVOKED
        /\ store[t].status = TASK_STATUS_REVOKED}

\* C19: at every state of a cancellation call, each task below the requested task
\* that the call has revoked has a parent (as the table held it when the request
\* arrived) whose row is REVOKED: the parent's write is committed before any child
\* is read or visited.
C19_ParentRevokedFirst ==
    \A c \in Callers :
       calls[c].op = "cancel"
       => \A t \in RevokedByCall(calls[c]) :
             store[calls[c].at_call.store[t].parent_task_id].status = TASK_STATUS_REVOKED

---------------------------------------------------------------------------
(* SpecCancelFair: SpecCancel with a request handler that keeps running:   *)
(* a cancellation that can take a step eventually takes one                *)

SpecCancelFair ==
    SerialInit /\ [][CancelNext]_vars /\ WF_vars(CancelSteps({FALSE}, BOOLEAN))

\* the step enters the recursion for one more task on behalf of caller c
IsDescent(c) ==
    /\ calls[c].stack # <<>>
    /\ Len(calls'[c].stack) = Len(calls[c].stack) + 1

\* C20: every cancel request that is under way returns, and returns a count (at
\* most one per task it visited); a recursive call is made only for a task whose
\* parent_task_id is the task of the calling frame (a direct child: no sibling,
\* no ancestor), and never for a task the request has visited before.
C20_CancelTerminates ==
    /\ [][\A c \in Callers :
             /\ IsDescent(c)
                => /\ Head(calls'[c].stack).job_id \notin calls[c].visited
                   /\ store[Head(calls'[c].stack).job_id].parent_task_id
                         = Head(calls[c].stack).job_id
                   /\ calls[c].at_call.store[Head(calls'[c].stack).job_id].parent_task_id
                         = Head(calls[c].stack).job_id
                   /\ calls'[c].visited = calls[c].visited \cup {Head(calls'[c].stack).job_id}
             /\ calls[c].op = "cancel" /\ calls'[c] = IdleCall
                => /\ ret'.op = "cancel"
                   /\ ret'.arg = calls[c].arg
                   /\ ret'.code \in {200, 400}
                   /\ ret'.cancelled_jobs_count \in 0..Cardinality(calls[c].visited)]_vars
    /\ \A c \in Callers : (calls[c].op = "cancel") ~> (calls[c] = IdleCall /\ ret.op = "cancel")

\* C20 witness: cancel(R) has returned after the recursion went down to the
\* grandchild G and to both children of R
C20_Witness ==
    /\ ret.op = "cancel"
    /\ ret.arg = "R"
    /\ ret.cancelled_jobs_count = 3
    /\ RevokedBy(store, "R", ReasonApi("R"))
    /\ RevokedBy(store, "C1", ReasonParent)
    /\ RevokedBy(store, "C2", ReasonParent)
    /\ RevokedBy(store, "G", ReasonParent)

---------------------------------------------------------------------------
(* The count of a cancellation, under SpecCancel                           *)

\* the requested task and the tasks below it, as the table held them when the
\* request of call arrived
Subtree(call) ==
    {call.arg} \cup
    {t \in DOMAIN call.at_call.store :
        IsUnder(call.at_call.store, t, call.arg, Cardinality(TaskIds))}

\* the tasks for whose job the engine got a command since the request of call
\* arrived, snt being the commands sent by now
Commanded(call, snt) ==
    {t \in DOMAIN snt : Len(snt[t]) > Len(call.at_call.sent[t])}

\* C21: the step of a cancellation that contacts the engine adds one to the
\* count exactly when it sends a command; and when cancel returns, no job got
\* more than one command, the count is the number of tasks for whose job a
\* command was sent, these tasks belong to the cancelled subtree, the count is
\* at most the size of the subtree, and it is 0 if no job of the subtree was live
\* in the engine when the request arrived.
C21_CountIsCommands ==
    [][\A c \in Callers :
          /\ calls[c].stack # <<>> /\ Head(calls[c].stack).pc = "rq"
             => Head(calls'[c].stack).cancelled_count - Head(calls[c].stack).cancelled_count
                   = Len(sent'[Head(calls[c].stack).job_id])
                        - Len(sent[Head(calls[c].stack).job_id])
          /\ calls[c].op = "cancel" /\ calls'[c] = IdleCall /\ ret'.code \in {200, 400}
             => /\ \A t \in DOMAIN sent' :
                      Len(sent'[t]) - Len(calls[c].at_call.sent[t]) \in {0, 1}
                /\ ret'.cancelled_jobs_count = Cardinality(Commanded(calls[c], sent'))
                /\ Commanded(calls[c], sent') \subseteq Subtree(calls[c])
                /\ ret'.cancelled_jobs_count <= Cardinality(Subtree(calls[c]))
                /\ (\A t \in Subtree(calls[c]) :
                       t \in DOMAIN calls[c].at_call.jobs
                       => calls[c].at_call.jobs[t] \in EngineTerminal)
                   => ret'.cancelled_jobs_count = 0]_vars

\* C21 witness: cancel(R) has returned 1: the cancel command of queued C2 was
\* sent and counted; the call for started R raised, so R got no command and was
\* not counted; G's job was finished
C21_Witness ==
    /\ ret.op = "cancel"
    /\ ret.arg = "R"
    /\ ret.code = 200
    /\ ret.cancelled_jobs_count = 1
    /\ sent["C2"] = <<"cancel">>
    /\ sent["R"] = <<>>
    /\ "R" \in DOMAIN jobs /\ jobs["R"].status = "started"
    /\ "G" \in DOMAIN jobs /\ jobs["G"].status = "finished"
    /\ "C1" \notin DOMAIN jobs

---------------------------------------------------------------------------
(* Status reconciliation, under SpecRecon: rows as save_task_status wrote   *)
(* them, against every view of the engine                                  *)

\* C22: a status request is answered not-found (404, state UNKNOWN) if and only if
\* neither the engine nor the store has the task; if either has it, the answer
\* is a status object (200) whose state is not UNKNOWN.
C22_NotFoundIffAbsent ==
    ret.op = "status"
    => /\ (ret.code = 404) <=> (ret.arg \notin DOMAIN jobs /\ ret.arg \notin DOMAIN store)
       /\ ret.code \in {200, 404}
       /\ (ret.state = "UNKNOWN") <=> (ret.code = 404)
       /\ ret.code = 404 => ret.status_message = "Task ID not found in RQ or DB."

\* C22 witness: the status of R has been asked while the engine and the store
\* both lack it, and answered not-found
C22_Witness ==
    /\ ret.op = "status"
    /\ ret.arg = "R"
    /\ ret.code = 404
    /\ ret.state = "UNKNOWN"
    /\ "R" \notin DOMAIN jobs
    /\ "R" \notin DOMAIN store

\* the engine reports the job of the answered request in a terminal state
EngineTerminalFor(task_id) ==
    task_id \in DOMAIN jobs /\ jobs[task_id].status \in EngineTerminal

\* the store holds the task of the answered request as REVOKED
HeldRevoked(task_id) ==
    task_id \in DOMAIN store /\ store[task_id].status = TASK_STATUS_REVOKED

\* the names the terminal engine states are mapped to
MappedTerminal(engine_state) ==
    CASE engine_state = "finished" -> "SUCCESS"
      [] engine_state = "failed" -> "FAILURE"
      [] engine_state = "canceled" -> "CANCELED"

\* the status message the handler sets for a terminal engine state
TerminalMessage(engine_state) ==
    CASE engine_state = "finished" -> "SUCCESS"
      [] engine_state = "failed" -> "FAILED"
      [] engine_state = "canceled" -> "CANCELED"

\* C23: when the engine reports the job finished, failed or canceled and the
\* store does not hold the task as REVOKED, the reconciled state is SUCCESS,
\* FAILURE or CANCELED respectively, whatever status the store holds.
C23_TerminalMapped ==
    ret.op = "status" /\ EngineTerminalFor(ret.arg) /\ ~HeldRevoked(ret.arg)
    => ret.code = 200 /\ ret.state = MappedTerminal(jobs[ret.arg].status)

\* C23 as the code has it: in that case the reconciled state is the engine's own
\* word (finished, failed, canceled), whatever status the store holds, and the
\* status message is SUCCESS, FAILED or CANCELED respectively.
C23_TerminalEngineState ==
    ret.op = "status" /\ EngineTerminalFor(ret.arg) /\ ~HeldRevoked(ret.arg)
    => /\ ret.code = 200
       /\ ret.state = jobs[ret.arg].status
       /\ ret.status_message = TerminalMessage(jobs[ret.arg].status)

\* C23 witness: the status of R has been answered 'failed' with message FAILED
\* while the store holds R in PROGRESS
C23_Witness ==
    /\ ret.op = "status"
    /\ ret.arg = "R"
    /\ "R" \in DOMAIN jobs /\ jobs["R"].status = "failed"
    /\ "R" \in DOMAIN store /\ store["R"].status = TASK_STATUS_PROGRESS
    /\ ret.state = "failed"
    /\ ret.status_message = "FAILED"

\* C24: whenever the engine reports the job finished, failed or canceled, the
\* reconciled progress is 100, also when the row of the task holds a lower
\* progress.
C24_TerminalProgress100 ==
    ret.op = "status" /\ EngineTerminalFor(ret.arg)
    => ret.code = 200 /\ ret.progress = 100

\* C25: when the store has the task and the engine has no job for it or reports
\* it queued or started, the reconciled state is the row's status; and a request
\* for a task with a row and no job is answered 200, never as an error or as
\* not-found.
C25_StoreStatusPreferred ==
    /\ ret.op = "status"
    /\ ret.arg \in DOMAIN store
    /\ ~EngineTerminalFor(ret.arg)
    => /\ ret.code = 200
       /\ ret.state = store[ret.arg].status
       /\ ret.state # "UNKNOWN"

\* C25 witness: the status of R has been answered PROGRESS from the row while
\* the engine reports the job queued
C25_Witness ==
    /\ ret.op = "status"
    /\ ret.arg = "R"
    /\ ret.code = 200
    /\ "R" \in DOMAIN jobs /\ jobs["R"].status = "queued"
    /\ "R" \in DOMAIN store /\ store["R"].status = TASK_STATUS_PROGRESS
    /\ ret.state = TASK_STATUS_PROGRESS

\* C26: when the store has the task with a status other than REVOKED, the
\* reconciled progress is the row's progress, whatever progress the job's
\* metadata reports and whatever the engine's state is.
C26_StoreProgressPreferred ==
    /\ ret.op = "status"
    /\ ret.arg \in DOMAIN store
    /\ store[ret.arg].status # TASK_STATUS_REVOKED
    => /\ ret.code = 200
       /\ ret.progress = store[ret.arg].progress

\* C26 witness: the status of R has been answered with the row's progress 50
\* (status SUCCESS) while the started job's metadata reports 70
C26_Witness ==
    /\ ret.op = "status"
    /\ ret.arg = "R"
    /\ "R" \in DOMAIN store
    /\ store["R"].status = TASK_STATUS_SUCCESS
    /\ store["R"].progress = 50
    /\ "R" \in DOMAIN jobs
    /\ jobs["R"].status = "started"
    /\ "progress" \in DOMAIN jobs["R"].meta
    /\ jobs["R"].meta["progress"] = 70
    /\ ret.progress = 50

\* the details of the store's row of task_id ({} without a row or with SQL NULL)
StoreDetailsOf(task_id) ==
    IF task_id \in DOMAIN store THEN DbDetails(store[task_id].details) ELSE EmptyDict

\* the details the engine gives for task_id ({} without a job)
EngineDetailsOf(task_id) == EngineView(jobs, task_id).details

\* the keys the status read removes from the details of task_id
RedactedKeys(task_id) ==
    IF task_id \in DOMAIN store /\ IsAnalysisType(store[task_id].task_type)
    THEN {"checked_album_ids"} ELSE {}

\* a value of the details as the status read returns it under key k: a log of
\* more than 10 entries is a summary entry followed by its last 10 entries
Returned_Value(k, v) ==
    IF k = "log" /\ IsList(v) /\ Len(v) > 10
    THEN <<EarlierTruncated(Len(v) - 10)>> \o SubSeq(v, Len(v) - 9, Len(v))
    ELSE v

\* C27: the reconciled details contain every key of the store's details and
\* every key of the engine's details; for a key present in both, the engine's
\* value is returned.
C27_DetailsMerged ==
    ret.op = "status" /\ ret.code = 200
    => /\ DOMAIN StoreDetailsOf(ret.arg) \cup DOMAIN EngineDetailsOf(ret.arg)
             \subseteq DOMAIN ret.details
       /\ \A k \in DOMAIN StoreDetailsOf(ret.arg) \cap DOMAIN EngineDetailsOf(ret.arg) :
             k \in DOMAIN ret.details /\ ret.details[k] = EngineDetailsOf(ret.arg)[k]

\* C27 as the code has it: the keys of the reconciled details are the keys of the
\* store's details and of the engine's details, less checked_album_ids when the
\* row's task type is an analysis type; a key of the engine's details carries
\* the engine's value, any other key the store's; and a log of more than 10
\* entries is returned as a summary entry followed by its last 10 entries.
C27_DetailsMergedRedacted ==
    ret.op = "status" /\ ret.code = 200
    => /\ DOMAIN ret.details
             = (DOMAIN StoreDetailsOf(ret.arg) \cup DOMAIN EngineDetailsOf(ret.arg))
                  \ RedactedKeys(ret.arg)
       /\ \A k \in DOMAIN ret.details :
             ret.details[k] =
                IF k \in DOMAIN EngineDetailsOf(ret.arg)
                THEN Returned_Value(k, EngineDetailsOf(ret.arg)[k])
                ELSE Returned_Value(k, StoreDetailsOf(ret.arg)[k])

\* C27 witness: the status of R has been answered with the engine's status_message
\* 'Live' over the row's 'Analysing albums', and without checked_album_ids
C27_Witness ==
    /\ ret.op = "status"
    /\ ret.arg = "R"
    /\ ret.code = 200
    /\ "status_message" \in DOMAIN StoreDetailsOf("R")
    /\ StoreDetailsOf("R")["status_message"] = "Analysing albums"
    /\ "status_message" \in DOMAIN EngineDetailsOf("R")
    /\ "checked_album_ids" \in DOMAIN EngineDetailsOf("R")
    /\ ret.details["status_message"] = "Live"
    /\ "checked_album_ids" \notin DOMAIN ret.details
    /\ Len(ret.details["log"]) = 11

---------------------------------------------------------------------------
(* The commands of a cancellation, under SpecSerial: the engine's calls do  *)
(* not raise                                                               *)

\* the step is the engine step of the recursion of caller c for task t
IsInterruptOf(c, t) ==
    /\ calls[c].stack # <<>>
    /\ Head(calls[c].stack).pc = "rq"
    /\ Head(calls[c].stack).job_id = t

\* C28: the engine step of cancel for a visited task sends no command if the
\* task's job is finished, failed or canceled, exactly one 'stop' if the job has
\* started, exactly one 'cancel' if it is queued, and no command if the engine
\* has no such job; in every case no other job gets a command and the call goes
\* on to the task's children. No other step of a cancellation sends a command.
C28_OneCommandPerLiveJob ==
    [][\A c \in Callers :
          /\ \A t \in TaskIds :
                IsInterruptOf(c, t)
                => /\ \A u \in TaskIds \ {t} : sent'[u] = sent[u]
                   /\ sent'[t] =
                         IF t \notin DOMAIN jobs THEN sent[t]
                         ELSE IF jobs[t].status \in EngineTerminal THEN sent[t]
                         ELSE IF jobs[t].status = "started" THEN Append(sent[t], "stop")
                         ELSE Append(sent[t], "cancel")
                   /\ calls'[c].stack # <<>>
                   /\ Head(calls'[c].stack).job_id = t
                   /\ Head(calls'[c].stack).pc = "children"
          /\ sent' # sent => \E t \in TaskIds : IsInterruptOf(c, t)]_vars

\* C28 witness: cancel(R) has returned after one stop for started R, one cancel
\* for queued C2, no command for finished G and none for C1, which has no job
C28_Witness ==
    /\ ret.op = "cancel"
    /\ ret.arg = "R"
    /\ ret.cancelled_jobs_count = 2
    /\ sent["R"] = <<"stop">>
    /\ sent["C2"] = <<"cancel">>
    /\ sent["G"] = <<>>
    /\ sent["C1"] = <<>>
    /\ "G" \in DOMAIN jobs /\ jobs["G"].status = "finished"
    /\ "C1" \notin DOMAIN jobs
    /\ RevokedBy(store, "G", ReasonParent)

---------------------------------------------------------------------------
(* SpecRecursive: cancel_job_and_children_recursive called directly, for    *)
(* tasks with and without a row; the engine's calls do not raise           *)

RecursiveTasks == {"R", "C1"}

\* no rows; the row of C1 alone (task_status declares no foreign key: a child's
\* row can exist without its parent's); the rows of R and C1
RecursiveStores ==
    {[t \in S |->
        UpsertRow(NoRows, 1, t, TaskTypeOf(t), v, ParentOf(t), SubTypeOf(t), 50,
                  DetailsJson(v, [status_message |-> "Analysing albums"]))] :
        S \in {{}, {"C1"}, {"R", "C1"}},
        v \in {TASK_STATUS_PENDING, TASK_STATUS_PROGRESS}}

RecursiveJobs ==
    {[t \in {x \in RecursiveTasks : f[x] # "absent"} |-> [NewJob EXCEPT !.status = f[t]]] :
        f \in [RecursiveTasks -> {"absent", "queued", "started", "finished"}]}

RecursiveInit ==
    /\ store \in RecursiveStores
    /\ jobs \in RecursiveJobs
    /\ sent = [t \in TaskIds |-> <<>>]
    /\ now = 1
    /\ notifier = StartedNotifier
    /\ calls = [c \in Callers |-> IdleCall]
    /\ sweep = IdleSweep
    /\ ret = NoResponse
    /\ ops = 0

RecursiveNext ==
    \/ Quiet /\ Tick
    \/ Quiet /\ \E c \in Callers, t \in RecursiveTasks : CancelRecursive(c, t)
    \/ CancelSteps({FALSE}, {FALSE})

SpecRecursive == RecursiveInit /\ [][RecursiveNext]_vars

---------------------------------------------------------------------------
(* Children that are over, under SpecSerial                                *)

\* the tasks whose row was SUCCESS, FAILURE or REVOKED when the request of call
\* arrived
TerminalAtCall(call) ==
    {t \in DOMAIN call.at_call.store : call.at_call.store[t].status \in TerminalStatuses}

\* C30: the round of the child loop that finds the child's row SUCCESS, FAILURE or
\* REVOKED moves on to the next child: it enters no call for the child and
\* changes neither the store nor the engine; and no step of a cancel request
\* changes the row of a task that was terminal when the request arrived, sends a
\* command for its job, or visits it.
C30_TerminalChildSkipped ==
    [][\A c \in Callers :
          /\ /\ calls[c].stack # <<>>
             /\ Head(calls[c].stack).pc = "loop"
             /\ Head(calls[c].stack).children # <<>>
             /\ store[Head(Head(calls[c].stack).children)].status \in TerminalStatuses
             => /\ Len(calls'[c].stack) = Len(calls[c].stack)
                /\ Head(calls'[c].stack).children = Tail(Head(calls[c].stack).children)
                /\ calls'[c].visited = calls[c].visited
                /\ store' = store /\ jobs' = jobs /\ sent' = sent
          /\ calls[c].op = "cancel"
             => \A t \in TerminalAtCall(calls[c]) :
                   /\ store'[t] = store[t]
                   /\ sent'[t] = sent[t]
                   /\ t \in DOMAIN jobs => t \in DOMAIN jobs' /\ jobs'[t] = jobs[t]
                   /\ t \notin calls[c].visited]_vars

\* C30 witness: cancel(R) has returned; the row of R's child C2, SUCCESS when the
\* request arrived, is as it was written and its queued job got no command
C30_Witness ==
    /\ ret.op = "cancel"
    /\ ret.arg = "R"
    /\ RevokedBy(store, "R", ReasonApi("R"))
    /\ RevokedBy(store, "C1", ReasonParent)
    /\ store["C2"] = SerialStore(SerialStatuses3)["C2"]
    /\ store["C2"].status = TASK_STATUS_SUCCESS
    /\ "C2" \in DOMAIN jobs /\ jobs["C2"].status = "queued"
    /\ sent["C2"] = <<>>

---------------------------------------------------------------------------
(* SpecDeep: cancel requests, one at a time, over the tree with a finished  *)
(* intermediate task above a running one; neither store nor engine fails   *)

DeepStatuses ==
    {[R |-> "PROGRESS", C1 |-> "SUCCESS", C2 |-> "PENDING", G |-> "PROGRESS", R2 |-> "STARTED"],
     [R |-> "STARTED", C1 |-> "PROGRESS", C2 |-> "FAILURE", G |-> "PENDING", R2 |-> "STARTED"]}

DeepInit ==
    /\ store \in {SerialStore(v) : v \in DeepStatuses}
    /\ jobs \in SerialJobs
    /\ sent = [t \in TaskIds |-> <<>>]
    /\ now = 1
    /\ notifier = StartedNotifier
    /\ calls = [c \in Callers |-> IdleCall]
    /\ sweep = IdleSweep
    /\ ret = NoResponse
    /\ ops = 0

DeepNext ==
    \/ Quiet /\ Tick
    \/ Quiet /\ \E c \in Callers, t \in SpecTasks : CancelTaskEndpoint(c, t)
    \/ CancelSteps({FALSE}, {FALSE})

SpecDeep == DeepInit /\ [][DeepNext]_vars

\* task t is below root in the table s through tasks that are all non-terminal
\* (t itself may be terminal or not), at most n levels down
RECURSIVE IsUnderLive(_, _, _, _)
IsUnderLive(s, t, root, n) ==
    /\ n > 0
    /\ t \in DOMAIN s
    /\ s[t].parent_task_id # NULL
    /\ \/ s[t].parent_task_id = root
       \/ /\ s[t].parent_task_id \in DOMAIN s
          /\ s[s[t].parent_task_id].status \notin TerminalStatuses
          /\ IsUnderLive(s, s[t].parent_task_id, root, n - 1)

\* the descendants of the requested task that were non-terminal when the request
\* of call arrived
LiveDescendants(call) ==
    {t \in DOMAIN call.at_call.store :
        /\ IsUnder(call.at_call.store, t, call.arg, Cardinality(TaskIds))
        /\ call.at_call.store[t].status \notin TerminalStatuses}

---------------------------------------------------------------------------
(* Writes with status SUCCESS, under SpecLog                               *)

\* C32: after a write with status SUCCESS that carries details, the row holds no
\* log_storage_info; its log is the single entry 'Task completed successfully.'
\* if the write's log was missing, no list or empty, and otherwise the write's
\* log in full, whatever its length; every other key is persisted as written.
C32_SuccessLog ==
    /\ ret.op = "save"
    /\ ret.status = TASK_STATUS_SUCCESS
    /\ ret.details # PyNone
    => LET written == ret.details
           persisted == json_loads(store[ret.arg].details)
       IN  /\ store[ret.arg].details.kind = "json"
           /\ "log_storage_info" \notin DOMAIN persisted
           /\ DOMAIN persisted = (DOMAIN written \ {"log_storage_info"}) \cup {"log"}
           /\ persisted["log"] =
                 IF "log" \notin DOMAIN written THEN <<"Task completed successfully.">>
                 ELSE IF ~IsList(written["log"]) THEN <<"Task completed successfully.">>
                 ELSE IF written["log"] = <<>> THEN <<"Task completed successfully.">>
                 ELSE written["log"]
           /\ \A k \in DOMAIN persisted \ {"log"} : persisted[k] = written[k]

\* C32 witness: a SUCCESS write with a log of 12 entries and an annotation has
\* been persisted with its 12 entries and without the annotation
C32_Witness ==
    /\ ret.op = "save"
    /\ ret.status = TASK_STATUS_SUCCESS
    /\ ret.details = [log |-> LogEntries(12), log_storage_info |-> LogStorageInfo(MaxLogLen)]
    /\ "R" \in DOMAIN store
    /\ store["R"].details = json_dumps([log |-> LogEntries(12)])

---------------------------------------------------------------------------
(* The columns a cancellation leaves alone, under SpecSerial               *)

\* C33: when a cancel request returns, every task has the parent_task_id,
\* sub_type_identifier, task_type and start_time it had when the request arrived:
\* the hierarchy recorded in the store is unchanged.
C33_HierarchyKept ==
    [][\A c \in Callers :
          calls[c].op = "cancel" /\ calls'[c] = IdleCall
          => /\ DOMAIN store' = DOMAIN calls[c].at_call.store
             /\ \A t \in DOMAIN store' :
                   /\ store'[t].parent_task_id = calls[c].at_call.store[t].parent_task_id
                   /\ store'[t].sub_type_identifier
                         = calls[c].at_call.store[t].sub_type_identifier
                   /\ store'[t].task_type = calls[c].at_call.store[t].task_type
                   /\ store'[t].start_time = calls[c].at_call.store[t].start_time]_vars

---------------------------------------------------------------------------
(* SpecRoots: creations and updates of a root task and of a child of it,    *)
(* cancel requests, archival sweeps and the two root views, one operation  *)
(* at a time; neither store nor engine fails                               *)

RootsNext ==
    \/ Quiet /\ \E t \in ViewTasks, s \in SpecStatuses, p \in SpecProgress, d \in SpecDetails :
                   WorkerSave(t, s, p, d, FALSE)
    \/ Quiet /\ Tick
    \/ Quiet /\ \E c \in Callers, t \in ViewTasks : CancelTaskEndpoint(c, t)
    \/ CancelSteps({FALSE}, {FALSE})
    \/ Quiet /\ SweepSelect(FALSE)
    \/ SweepSteps({FALSE})
    \/ Quiet /\ GetLastTask
    \/ Quiet /\ GetActiveTasks

SpecRoots == Init /\ [][RootsNext]_vars

\* C34: the most-recent-root-task view and the active-root-task view return only
\* tasks that were created as root tasks, never a task created as a child of
\* another task.
C34_ViewsReturnRoots ==
    ret.op \in {"last_task", "active_tasks"} /\ ret.arg # NULL
    => ParentOf(ret.arg) = NULL

---------------------------------------------------------------------------
(* What the answer of the cancel endpoint says about the store, under      *)
(* SpecSerial                                                              *)

\* C35: whenever the single-task cancel endpoint answers with a failure (not found,
\* or could not be cancelled) the request has changed no task row, and whenever
\* the request has marked at least one task REVOKED the endpoint answers that the
\* cancellation was initiated.
C35_FailureChangedNothing ==
    [][\A c \in Callers :
          /\ calls[c] = IdleCall /\ calls'[c] = IdleCall /\ ret'.op = "cancel" /\ ops' # ops
             => store' = store
          /\ calls[c].op = "cancel" /\ calls'[c] = IdleCall /\ ret'.op = "cancel"
             => /\ ret'.code # 200
                   => \A t \in DOMAIN store' :
                         store'[t].status = calls[c].at_call.store[t].status
                /\ (\E t \in DOMAIN store' :
                       /\ calls[c].at_call.store[t].status # TASK_STATUS_REVOKED
                       /\ store'[t].status = TASK_STATUS_REVOKED)
                   => ret'.code = 200 /\ ret'.message = "initiated"]_vars

---------------------------------------------------------------------------
(* SpecConcurrent: two request handlers cancel the same root task at the   *)
(* same time. The fetch of the job and the command that follows it are two *)
(* engine round-trips, so the other handler can act between them.          *)

TwoCallers == {"a", "b"}

\* a command step that issues its command twice
IssueCommand_Twice(js, snt, job_id, command, rqError) ==
    IF rqError
    THEN [jobs |-> js, sent |-> snt, action_taken_in_rq |-> FALSE]
    ELSE IF command = "stop"
         THEN [jobs |-> js,
               sent |-> [snt EXCEPT ![job_id] = @ \o <<"stop", "stop">>],
               action_taken_in_rq |-> TRUE]
         ELSE [jobs |-> [js EXCEPT ![job_id].status = "canceled"],
               sent |-> [snt EXCEPT ![job_id] = @ \o <<"cancel", "cancel">>],
               action_taken_in_rq |-> TRUE]

\* send_stop_job_command(redis_conn, job_id) for a job that was fetched as started,
\* job_rq.cancel() for one that was fetched as queued: [jobs, sent,
\* action_taken_in_rq]. An exception of the engine (rqError) is caught: no command
\* was issued.
IssueCommand(js, snt, job_id, command, rqError) ==
    IF rqError
    THEN [jobs |-> js, sent |-> snt, action_taken_in_rq |-> FALSE]
    ELSE IF command = "stop"
         THEN [jobs |-> js,
               sent |-> [snt EXCEPT ![job_id] = Append(@, "stop")],
               action_taken_in_rq |-> TRUE]
         ELSE [jobs |-> [js EXCEPT ![job_id].status = "canceled"],
               sent |-> [snt EXCEPT ![job_id] = Append(@, "cancel")],
               action_taken_in_rq |-> TRUE]

\* Job.fetch and the status tests: a job that is absent or over gets no command,
\* a started job is about to get a stop, any other job a cancel
CancelFetch(c) ==
    /\ calls[c].stack # <<>>
    /\ Head(calls[c].stack).pc = "rq"
    /\ LET f == Head(calls[c].stack)
           pc == IF f.job_id \notin DOMAIN jobs THEN "children"
                 ELSE IF jobs[f.job_id].status \in EngineTerminal THEN "children"
                 ELSE IF jobs[f.job_id].status = "started" THEN "stop"
                 ELSE "cancel"
       IN  calls' = [calls EXCEPT ![c] = SetTop(@, [f EXCEPT !.pc = pc])]
    /\ ret' = NoResponse
    /\ UNCHANGED <<store, jobs, sent, now, notifier, sweep, ops>>

\* the outcomes of job_rq.cancel(): for a job that another handler has canceled
\* since the fetch, the engine's library either cancels again or raises
CancelRaises(command, job_id) ==
    IF command = "cancel" /\ jobs[job_id].status = "canceled" THEN BOOLEAN ELSE {FALSE}

\* the command for the fetched job, and the count of this call
CancelCommand(c) ==
    /\ calls[c].stack # <<>>
    /\ Head(calls[c].stack).pc \in {"stop", "cancel"}
    /\ LET f == Head(calls[c].stack) IN
       \E rqError \in CancelRaises(f.pc, f.job_id) :
          LET r == IssueCommand(jobs, sent, f.job_id, f.pc, rqError)
          IN  /\ jobs' = r.jobs
              /\ sent' = r.sent
              /\ calls' = [calls EXCEPT ![c] = SetTop(@,
                              [f EXCEPT !.pc = "children",
                                        !.cancelled_count =
                                            IF r.action_taken_in_rq THEN @ + 1 ELSE @])]
    /\ ret' = NoResponse
    /\ UNCHANGED <<store, now, notifier, sweep, ops>>

\* the tree all non-terminal, with a finished leaf, and with a finished
\* intermediate task
ConcurrentStatuses ==
    {[R |-> "PROGRESS", C1 |-> "STARTED", C2 |-> "PENDING", G |-> "PROGRESS", R2 |-> "SUCCESS"],
     [R |-> "PROGRESS", C1 |-> "PROGRESS", C2 |-> "SUCCESS", G |-> "STARTED", R2 |-> "SUCCESS"],
     [R |-> "STARTED", C1 |-> "SUCCESS", C2 |-> "PENDING", G |-> "PROGRESS", R2 |-> "SUCCESS"]}

ConcurrentJobChoices(t) ==
    CASE t = "R" -> {"queued", "started"}
      [] t = "C1" -> {"absent"}
      [] t = "C2" -> {"queued", "finished"}
      [] OTHER -> {"started"}

ConcurrentJobs ==
    {[t \in {x \in Tree : f[x] # "absent"} |-> [NewJob EXCEPT !.status = f[t]]] :
        f \in {g \in [Tree -> JobStatuses \cup {"absent"}] :
                  \A t \in Tree : g[t] \in ConcurrentJobChoices(t)}}

ConcurrentInit ==
    /\ store \in {SerialStore(v) : v \in ConcurrentStatuses}
    /\ jobs \in ConcurrentJobs
    /\ sent = [t \in TaskIds |-> <<>>]
    /\ now = 1
    /\ notifier = StartedNotifier
    /\ calls = [c \in TwoCallers |-> IdleCall]
    /\ sweep = IdleSweep
    /\ ret = NoResponse
    /\ ops = 0

ConcurrentNext ==
    \/ (\A c \in TwoCallers : calls[c] = IdleCall) /\ Tick
    \/ \E c \in TwoCallers : CancelTaskEndpoint(c, "R")
    \/ \E c \in TwoCallers : CancelEnter(c, FALSE, FALSE)
    \/ \E c \in TwoCallers : CancelFetch(c)
    \/ \E c \in TwoCallers : CancelCommand(c)
    \/ \E c \in TwoCallers : CancelChildren(c)
    \/ \E c \in TwoCallers : CancelLoop(c)

SpecConcurrent == ConcurrentInit /\ [][ConcurrentNext]_vars

\* the number of commands in snt for the jobs of the tasks S
RECURSIVE CommandsSent(_, _)
CommandsSent(snt, S) ==
    IF S = {} THEN 0
    ELSE LET t == CHOOSE x \in S : TRUE
         IN  Len(snt[t]) + CommandsSent(snt, S \ {t})

\* the table st is as one call of cancel(call.arg) leaves the table the request of
\* call found: the requested task and each of its descendants that it reaches
\* through non-terminal tasks are REVOKED, every other task has its status
AsAfterOneCall(call, st) ==
    /\ RevokedBy(st, call.arg, ReasonApi(call.arg))
    /\ \A t \in DOMAIN call.at_call.store \ {call.arg} :
          IF /\ call.at_call.store[t].status \notin TerminalStatuses
             /\ IsUnderLive(call.at_call.store, t, call.arg, Cardinality(TaskIds))
          THEN RevokedBy(st, t, ReasonParent)
          ELSE st[t].status = call.at_call.store[t].status

\* the step with which c, the last request handler at work, returns
LastReturn(c) ==
    /\ calls[c].op = "cancel"
    /\ calls'[c] = IdleCall
    /\ \A d \in TwoCallers \ {c} : calls[d] = IdleCall

\* C36: when two cancel calls for the same root task run at the same time, the
\* store is in the end as one call leaves it, no engine job has received more than
\* one stop/cancel command in total, and the two counts (each the number of
\* commands its call issued) add up to no more than the number of jobs of the
\* tree that were live and non-terminal in the engine.
C36_AsOneCall ==
    [][\A c \in TwoCallers :
          LastReturn(c)
          => /\ AsAfterOneCall(calls[c], store')
             /\ \A t \in TaskIds : Len(sent'[t]) <= 1
             /\ CommandsSent(sent', TaskIds)
                   <= Cardinality(LiveJobs(calls[c].at_call.jobs))]_vars

\* C36 as the code has it: each command step sends at most one command, to the
\* job of its own task, and counts it; when the last of the calls returns the
\* store is as one call leaves it and no job has received more than two commands;
\* and the count each call returns is at most the number of jobs of the tree that
\* were live and non-terminal in the engine when the request arrived.
C36_OneCommandPerCall ==
    [][\A c \in TwoCallers :
          /\ calls[c].stack # <<>> /\ Head(calls[c].stack).pc \in {"stop", "cancel"}
             /\ calls'[c] # calls[c]
             => /\ \A t \in TaskIds \ {Head(calls[c].stack).job_id} : sent'[t] = sent[t]
                /\ Len(sent'[Head(calls[c].stack).job_id])
                      - Len(sent[Head(calls[c].stack).job_id]) \in {0, 1}
                /\ Head(calls'[c].stack).cancelled_count
                      - Head(calls[c].stack).cancelled_count
                      = Len(sent'[Head(calls[c].stack).job_id])
                           - Len(sent[Head(calls[c].stack).job_id])
          /\ calls[c].op = "cancel" /\ calls'[c] = IdleCall
             => /\ ret'.op = "cancel"
                /\ ret'.cancelled_jobs_count <= Cardinality(LiveJobs(calls[c].at_call.jobs))
          /\ LastReturn(c)
             => /\ AsAfterOneCall(calls[c], store')
                /\ \A t \in TaskIds : Len(sent'[t]) <= 2]_vars

\* C36 witness: both calls for R have returned; the started job of R got a stop
\* from each of them and the started job of G likewise, and R and its live
\* descendants are REVOKED
C36_Witness ==
    /\ \A c \in TwoCallers : calls[c] = IdleCall
    /\ ret.op = "cancel"
    /\ ret.arg = "R"
    /\ ret.code = 200
    /\ sent["R"] = <<"stop", "stop">>
    /\ sent["G"] = <<"stop", "stop">>
    /\ RevokedBy(store, "R", ReasonApi("R"))
    /\ RevokedBy(store, "C1", ReasonParent)
    /\ RevokedBy(store, "G", ReasonParent)

---------------------------------------------------------------------------
(* The listener after a failing reload, under SpecReload                   *)

\* the hook has raised in one of its calls so far
HookHasRaised == \E i \in 1..Len(notifier.reload_calls) : notifier.reload_calls[i].raised

\* C37: the listener never stops because of a failing reload: it is running after
\* every round of its loop, also the round in which the hook raises, and once the
\* hook has raised every later round for a 'reload' message still calls the hook.
C37_ListenerSurvives ==
    [][/\ notifier.alive /\ notifier'.alive
       /\ notifier'.consumed # notifier.consumed
          /\ HookHasRaised
          /\ Head(notifier.inbox) = MessageEvent(Encode("reload"))
          => /\ Len(notifier'.reload_calls) = Len(notifier.reload_calls) + 1
             /\ notifier'.reload_calls[Len(notifier'.reload_calls)].force_reload]_vars

\* C37 witness: the hook raised for the first 'reload', the listener went on to
\* the second 'reload' and called the hook again, this time without an exception
C37_Witness ==
    /\ notifier.alive
    /\ notifier.consumed = <<SubscribeEvent, MessageEvent(Encode("reload")),
                             MessageEvent(Encode("reload"))>>
    /\ Len(notifier.reload_calls) = 2
    /\ notifier.reload_calls[1].raised
    /\ ~notifier.reload_calls[2].raised

====
